---- MODULE Spec2Model ----
(***************************************************************************)
(* Model of the upstart init daemon core: the event queue (event.c), the   *)
(* job instance state machine (job.c) and the instance RPCs (job.c).       *)
(*                                                                         *)
(* The program is single threaded.  The main loop alternates between IO    *)
(* handlers (emit, start/stop/restart RPCs, child exits, tracer reports)   *)
(* and event_poll.  event_poll is modelled by its positions: the list      *)
(* iteration of NIH_LIST_FOREACH_SAFE (cursor iter and cached next) and    *)
(* the three cases of its switch with their fall-throughs.  All other      *)
(* handlers are single actions that run to their return.                   *)
(*                                                                         *)
(* A failed nih_assert aborts the program: it is recorded in aborted and   *)
(* no action is enabled afterwards.                                        *)
(***************************************************************************)
EXTENDS Integers, Sequences, FiniteSets, TLC

(***************************************************************************)
(* Bounds of the model.                                                    *)
(***************************************************************************)
\* the longest the events list gets
MaxEvents == 6
\* an external emit is accepted only while the queue is shorter than this
MaxQueue == 2
\* the longest blocking list job_finished is called with on its own
MaxBlocking == 3
\* the longest log a logged run keeps
MaxLog == 8

NULL == 0

(***************************************************************************)
(* Enumerations of job.h, event.h and blocked.h.                           *)
(***************************************************************************)
JobGoal == {"JOB_STOP", "JOB_START", "JOB_RESPAWN"}

JobState == {"JOB_WAITING", "JOB_STARTING", "JOB_PRE_START", "JOB_SPAWNED",
             "JOB_POST_START", "JOB_RUNNING", "JOB_PRE_STOP", "JOB_STOPPING",
             "JOB_KILLED", "JOB_POST_STOP"}

ProcessType == {"PROCESS_MAIN", "PROCESS_PRE_START", "PROCESS_POST_START",
                "PROCESS_PRE_STOP", "PROCESS_POST_STOP"}

EventProgress == {"EVENT_PENDING", "EVENT_HANDLING", "EVENT_FINISHED"}

\* the value (ProcessType)-1 of job->failed_process
PROCESS_NONE == "PROCESS_NONE"

\* names of the job events: an event name is the sequence of its
\* '/'-separated components, so that "starting/failed" is <<"starting","failed">>
JOB_STARTING_EVENT == <<"starting">>
JOB_STARTED_EVENT == <<"started">>
JOB_STOPPING_EVENT == <<"stopping">>
JOB_STOPPED_EVENT == <<"stopped">>

(***************************************************************************)
(* Job classes.  A class is a record                                       *)
(*   start_on, stop_on : an operator tree that is a disjunction of MATCH   *)
(*                       nodes, given as the set of event names it matches *)
(*                       ({} is a NULL operator)                           *)
(*   process           : the set of ProcessTypes the class defines         *)
(*   task, respawn     : flags                                             *)
(*   expect            : TRUE when expect is not EXPECT_NONE               *)
(*   deleted           : the class is to be freed once it is unused        *)
(* All classes and all events belong to the NULL session.                  *)
(***************************************************************************)
Class(start_on, stop_on, process, task, respawn, expect) ==
    [start_on |-> start_on, stop_on |-> stop_on, process |-> process,
     task |-> task, respawn |-> respawn, expect |-> expect,
     session |-> NULL, deleted |-> FALSE]

\* the external event names
ExtNames == {<<"foo">>, <<"bar">>}

\* the sets of job classes a run starts with (job_classes hash)
Configs ==
    { \* a service with a main process
      [a |-> Class({<<"foo">>}, {<<"bar">>}, {"PROCESS_MAIN"},
                   FALSE, FALSE, FALSE)],
      \* a task with a main process
      [a |-> Class({<<"foo">>}, {}, {"PROCESS_MAIN"}, TRUE, FALSE, FALSE)],
      \* one event both stops and starts the class
      [a |-> Class({<<"foo">>}, {<<"foo">>}, {"PROCESS_MAIN"},
                   FALSE, FALSE, FALSE)],
      \* one event both stops and starts a class with a pre-stop process
      [a |-> Class({<<"foo">>}, {<<"foo">>},
                   {"PROCESS_MAIN", "PROCESS_PRE_STOP"},
                   FALSE, FALSE, FALSE)],
      \* a service that the failure of its own start event starts again
      [a |-> Class({<<"foo">>, <<"foo", "failed">>}, {}, {"PROCESS_MAIN"},
                   FALSE, FALSE, FALSE)],
      \* a class without processes that its own events stop and start again
      [a |-> Class({<<"foo">>, JOB_STOPPED_EVENT}, {JOB_STARTED_EVENT}, {},
                   FALSE, FALSE, FALSE)],
      \* a respawning service with every process
      [a |-> Class({<<"foo">>}, {<<"bar">>}, ProcessType,
                   FALSE, TRUE, FALSE)],
      \* a service whose main process forks (expect)
      [a |-> Class({<<"foo">>}, {<<"bar">>}, {"PROCESS_MAIN"},
                   FALSE, FALSE, TRUE)],
      \* a service and a task that the starting event of any job starts
      [a |-> Class({<<"foo">>}, {},
                   {"PROCESS_MAIN"}, FALSE, FALSE, FALSE),
       b |-> Class({JOB_STARTING_EVENT}, {},
                   {"PROCESS_MAIN"}, TRUE, FALSE, FALSE)] }

VARIABLES
    classes,     \* job_classes: class name -> class record
    jobs,        \* the instances: class name -> Job (singleton instances)
    events,      \* the events list, in insertion order; an Event is
                 \* referred to by its place in the list
    aborted,     \* an assertion has failed
    pc,          \* position of the main thread
    iter,        \* event_poll: the list cursor (NULL at the list head)
    next_iter,   \* event_poll: the cached next entry of FOREACH_SAFE
    poll_again,  \* event_poll: its local variable
    ret          \* what is seen from outside: of a call made on its own,
                 \* its arguments and return value; of a run that is
                 \* logged, the inputs and effects so far

vars == <<classes, jobs, events, aborted, pc, iter, next_iter, poll_again,
          ret>>

(***************************************************************************)
(* The mutable graph handled by the functions below.  exhausted records    *)
(* that the events list would outgrow MaxEvents; no action takes such a    *)
(* step.  trace lists, in the order in which the handler makes them, the   *)
(* effects that are seen from outside: events emitted, replies sent, a     *)
(* job leaving the instances of its class.  unused is the answer that      *)
(* job_class_reconsider gives during the handler.                          *)
(***************************************************************************)
World == [classes |-> classes, jobs |-> jobs, events |-> events,
          aborted |-> aborted, exhausted |-> FALSE, spawn_fails |-> {},
          unused |-> TRUE, trace |-> <<>>]

\* the graph, with the answers given during the handler: the processes
\* (class and type) the spawner fails to run, and what
\* job_class_reconsider reports
WorldWith(answers) ==
    [World EXCEPT !.spawn_fails = answers.spawn_fails,
                  !.unused = answers.unused]

\* nothing more runs once the program has aborted
Dead(W) == W.aborted \/ W.exhausted

Abort(W) == [W EXCEPT !.aborted = TRUE]

\* the handler does something that is seen from outside
Trace(W, entry) == [W EXCEPT !.trace = Append(@, entry)]

\* the handler runs for the input in (a request, a child exit)
WorldOn(in, answers) == Trace(WorldWith(answers), in)

\* extend or overwrite one point of a function
Put(f, k, v) == [x \in (DOMAIN f) \cup {k} |-> IF x = k THEN v ELSE f[x]]
\* remove one point of a function
Drop(f, k) == [x \in (DOMAIN f) \ {k} |-> f[x]]

\* the list s without its entry at place e
RemoveAt(s, e) == SubSeq(s, 1, e - 1) \o SubSeq(s, e + 1, Len(s))

\* the place of an entry once the entry at place e has left the list
Moved(e, x) == IF x > e THEN x - 1 ELSE x

\* the entry that follows the one at place x (NULL: the list head)
NextEntry(s, x) == IF x # NULL /\ x < Len(s) THEN x + 1 ELSE NULL

\* a pass that begins with the newest entry of the list
FirstEntry_Newest(s) == IF s = <<>> THEN NULL ELSE Len(s)

\* the entry a pass over the list begins with
FirstEntry(s) == IF s = <<>> THEN NULL ELSE 1

(***************************************************************************)
(* blocked.c: Blocked records                                              *)
(***************************************************************************)
Blocked(type, job, event, message) ==
    [type |-> type, job |-> job, event |-> event, message |-> message]

blocked_new_job(job) == Blocked("BLOCKED_JOB", job, NULL, NULL)
blocked_new_event(event) == Blocked("BLOCKED_EVENT", "", event, NULL)
blocked_new_message(type, message) == Blocked(type, "", NULL, message)

(***************************************************************************)
(* event.c                                                                 *)
(***************************************************************************)
\* the place nih_list_add gives a new event: the tail of the list
NewEvent(W) == IF Len(W.events) >= MaxEvents THEN NULL ELSE Len(W.events) + 1

\* an event_new that gives the event a blocker held for the caller
event_new_Held(W, name, env) ==
    IF Len(name) = 0 THEN Abort(W)
    ELSE IF NewEvent(W) = NULL THEN [W EXCEPT !.exhausted = TRUE]
    ELSE Trace([W EXCEPT !.events =
                    Append(@, [name |-> name, env |-> env, session |-> NULL,
                               progress |-> "EVENT_PENDING",
                               failed |-> FALSE, blockers |-> 1,
                               blocking |-> <<>>, fd |-> -1])],
               [op |-> "emit", name |-> name, env |-> env])

event_new(W, name, env) ==
    LET id == NewEvent(W)
        event == [name |-> name, env |-> env, session |-> NULL,
                  progress |-> "EVENT_PENDING", failed |-> FALSE,
                  blockers |-> 0, blocking |-> <<>>, fd |-> -1]
    IN  IF Len(name) = 0 THEN Abort(W)
        ELSE IF id = NULL THEN [W EXCEPT !.exhausted = TRUE]
        ELSE Trace([W EXCEPT !.events = Append(@, event)],
                   [op |-> "emit", name |-> name, env |-> env])

event_block(W, e) ==
    [W EXCEPT !.events[e].blockers = @ + 1]

event_unblock(W, e) ==
    IF W.events[e].blockers > 0
    THEN [W EXCEPT !.events[e].blockers = @ - 1]
    ELSE Abort(W)

(***************************************************************************)
(* job.c                                                                   *)
(***************************************************************************)
\* the pid the spawner returns for a process of the instance of class c
PidOf(c, process) == 1

NoPids == [p \in ProcessType |-> 0]

\* a job_new that gives the job the goal to start
job_new_Started(W, c) ==
    LET job == [goal |-> "JOB_START", state |-> "JOB_WAITING",
                env |-> <<>>, start_env |-> <<>>, stop_env |-> <<>>,
                pid |-> NoPids, blocker |-> NULL, blocking |-> <<>>,
                failed |-> FALSE, failed_process |-> PROCESS_NONE,
                exit_status |-> 0]
    IN  [W EXCEPT !.jobs = Put(@, c, job)]

job_new(W, c) ==
    LET job == [goal |-> "JOB_STOP", state |-> "JOB_WAITING",
                env |-> <<>>, start_env |-> <<>>, stop_env |-> <<>>,
                pid |-> NoPids, blocker |-> NULL, blocking |-> <<>>,
                failed |-> FALSE, failed_process |-> PROCESS_NONE,
                exit_status |-> 0]
    IN  [W EXCEPT !.jobs = Put(@, c, job)]

\* the Blocked types of the callers that wait for a job
JobMethods ==
    {"BLOCKED_JOB_START_METHOD", "BLOCKED_JOB_STOP_METHOD",
     "BLOCKED_JOB_RESTART_METHOD", "BLOCKED_INSTANCE_START_METHOD",
     "BLOCKED_INSTANCE_STOP_METHOD", "BLOCKED_INSTANCE_RESTART_METHOD"}

\* the message of a waiting caller is answered: the reply of its method
\* (error "") or the D-Bus error named
Reply(W, blocked, error) ==
    Trace(W, [op |-> "reply", type |-> blocked.type,
              message |-> blocked.message, error |-> error])

\* a job_finished that frees the entries without unblocking their events
FinishBlocked_NoUnblock(W, blocking, failed) == W

\* a job_finished that gives the events its argument as their failed flag
RECURSIVE FinishBlocked_Overwrite(_, _, _)
FinishBlocked_Overwrite(W, blocking, failed) ==
    IF blocking = <<>> \/ Dead(W) THEN W
    ELSE LET blocked == Head(blocking)
             W1 == IF blocked.type = "BLOCKED_EVENT"
                   THEN event_unblock(
                            [W EXCEPT !.events[blocked.event].failed = failed],
                            blocked.event)
                   ELSE IF blocked.type \in JobMethods
                   THEN Reply(W, blocked,
                              IF failed THEN "JobFailed" ELSE "")
                   ELSE Abort(W)
         IN  FinishBlocked_Overwrite(W1, Tail(blocking), failed)

\* job_finished: resolve every entry of job->blocking
RECURSIVE FinishBlocked(_, _, _)
FinishBlocked(W, blocking, failed) ==
    IF blocking = <<>> \/ Dead(W) THEN W
    ELSE LET blocked == Head(blocking)
             W1 == IF blocked.type = "BLOCKED_EVENT"
                   THEN event_unblock(
                            [W EXCEPT !.events[blocked.event].failed =
                                          (@ \/ failed)],
                            blocked.event)
                   ELSE IF blocked.type \in JobMethods
                   THEN Reply(W, blocked,
                              IF failed THEN "JobFailed" ELSE "")
                   ELSE Abort(W)
         IN  FinishBlocked(W1, Tail(blocking), failed)

\* each entry is freed as it is resolved
ClearBlocking(W, c) ==
    IF Dead(W) THEN W ELSE [W EXCEPT !.jobs[c].blocking = <<>>]

job_finished(W, c, failed) ==
    IF Dead(W) THEN W
    ELSE ClearBlocking(FinishBlocked(W, W.jobs[c].blocking, failed), c)

\* the name process_name gives a process type
process_name(process) ==
    CASE process = "PROCESS_MAIN" -> "main"
      [] process = "PROCESS_PRE_START" -> "pre-start"
      [] process = "PROCESS_POST_START" -> "post-start"
      [] process = "PROCESS_PRE_STOP" -> "pre-stop"
      [] process = "PROCESS_POST_STOP" -> "post-stop"

\* nih_signal_to_name: the name of a signal, "" (for NULL) for a number
\* that is not one
nih_signal_to_name(signum) ==
    CASE signum = 9 -> "KILL"
      [] signum = 11 -> "SEGV"
      [] signum = 15 -> "TERM"
      [] OTHER -> ""

\* the signal as EXIT_SIGNAL gives it: its name, or else its number
SignalText(signum) ==
    IF nih_signal_to_name(signum) # "" THEN nih_signal_to_name(signum)
    ELSE ToString(signum)

\* an environment that gives the exit status of every failure
JobEventEnv_StatusAlways(c, job, stop) ==
    <<<<"JOB", c>>, <<"INSTANCE", "">>>> \o
    (IF stop /\ job.failed
     THEN <<<<"RESULT", "failed">>,
            <<"PROCESS", IF job.failed_process # PROCESS_NONE
                         THEN process_name(job.failed_process)
                         ELSE "respawn">>,
            <<"EXIT_STATUS", ToString(job.exit_status)>>>>
     ELSE IF stop THEN <<<<"RESULT", "ok">>>>
     ELSE <<>>)

\* an environment without the result of the job
JobEventEnv_NoResult(c, job, stop) == <<<<"JOB", c>>, <<"INSTANCE", "">>>>

\* the environment job_emit_event gives the event of a job
JobEventEnv(c, job, stop) ==
    <<<<"JOB", c>>, <<"INSTANCE", "">>>> \o
    (IF stop /\ job.failed
     THEN <<<<"RESULT", "failed">>>> \o
          (IF job.failed_process # PROCESS_NONE /\ job.exit_status # -1
           THEN <<<<"PROCESS", process_name(job.failed_process)>>>> \o
                (IF job.exit_status >= 256
                 THEN <<<<"EXIT_SIGNAL", SignalText(job.exit_status \div 256)>>>>
                 ELSE <<<<"EXIT_STATUS", ToString(job.exit_status)>>>>)
           ELSE IF job.failed_process # PROCESS_NONE
           THEN <<<<"PROCESS", process_name(job.failed_process)>>>>
           ELSE <<<<"PROCESS", "respawn">>>>)
     ELSE IF stop THEN <<<<"RESULT", "ok">>>>
     ELSE <<>>)

\* the end of job_emit_event: the session of the event is set and, for a
\* blocking event, the Blocked record of the job is added to its list
AttachJob(W, id, c, block) ==
    IF Dead(W) THEN W
    ELSE [W EXCEPT !.events[id].session = W.classes[c].session,
                   !.events[id].blocking =
                       IF block THEN Append(@, blocked_new_job(c)) ELSE @]

\* a job_emit_event that adds the Blocked record of the job to every event
job_emit_event_BlockAll(W, c) ==
    LET job == W.jobs[c]
        name == CASE job.state = "JOB_STARTING" -> JOB_STARTING_EVENT
                  [] job.state = "JOB_RUNNING" -> JOB_STARTED_EVENT
                  [] job.state = "JOB_STOPPING" -> JOB_STOPPING_EVENT
                  [] job.state = "JOB_WAITING" -> JOB_STOPPED_EVENT
                  [] OTHER -> <<>>
        stop == job.state \in {"JOB_STOPPING", "JOB_WAITING"}
    IN  IF Dead(W) THEN W
        ELSE IF name = <<>> THEN Abort(W)
        ELSE AttachJob(event_new(W, name, JobEventEnv(c, job, stop)),
                       NewEvent(W), c, TRUE)

job_emit_event(W, c) ==
    LET job == W.jobs[c]
        name == CASE job.state = "JOB_STARTING" -> JOB_STARTING_EVENT
                  [] job.state = "JOB_RUNNING" -> JOB_STARTED_EVENT
                  [] job.state = "JOB_STOPPING" -> JOB_STOPPING_EVENT
                  [] job.state = "JOB_WAITING" -> JOB_STOPPED_EVENT
                  [] OTHER -> <<>>
        block == job.state \in {"JOB_STARTING", "JOB_STOPPING"}
        stop == job.state \in {"JOB_STOPPING", "JOB_WAITING"}
    IN  IF Dead(W) THEN W
        ELSE IF name = <<>> THEN Abort(W)
        ELSE AttachJob(event_new(W, name, JobEventEnv(c, job, stop)),
                       NewEvent(W), c, block)

\* the event job_emit_event has just appended to the queue
LastEvent(W) == Len(W.events)

\* job->blocker = job_emit_event (job)
SetBlocker(W, c) ==
    IF Dead(W) THEN W ELSE [W EXCEPT !.jobs[c].blocker = LastEvent(W)]

\* job_process_run: the spawner gives a pid or fails (-1)
job_process_run(W, c, process) ==
    IF <<c, process>> \in W.spawn_fails
    THEN [ret |-> -1,
          W |-> Trace(W, [op |-> "spawn_failed", job |-> c,
                          process |-> process])]
    ELSE [ret |-> 0,
          W |-> [W EXCEPT !.jobs[c].pid[process] = PidOf(c, process)]]

\* job_process_kill: the kill signal is sent, the process ends later
job_process_kill(W, c, process) == W

\* the successor state job_next_state returns for the fields it reads;
\* "ASSERT" stands for nih_assert_not_reached
NextState(state, goal, has_main, main_pid) ==
    CASE state = "JOB_WAITING" ->
           (CASE goal = "JOB_START" -> "JOB_STARTING"
              [] OTHER -> "ASSERT")
      [] state = "JOB_STARTING" ->
           (CASE goal = "JOB_STOP" -> "JOB_STOPPING"
              [] goal = "JOB_START" -> "JOB_PRE_START"
              [] OTHER -> "ASSERT")
      [] state = "JOB_PRE_START" ->
           (CASE goal = "JOB_STOP" -> "JOB_STOPPING"
              [] goal = "JOB_START" -> "JOB_SPAWNED"
              [] OTHER -> "ASSERT")
      [] state = "JOB_SPAWNED" ->
           (CASE goal = "JOB_STOP" -> "JOB_STOPPING"
              [] goal = "JOB_START" -> "JOB_POST_START"
              [] OTHER -> "ASSERT")
      [] state = "JOB_POST_START" ->
           (CASE goal = "JOB_STOP" -> "JOB_STOPPING"
              [] goal = "JOB_START" -> "JOB_RUNNING"
              [] goal = "JOB_RESPAWN" -> "JOB_STOPPING"
              [] OTHER -> "ASSERT")
      [] state = "JOB_RUNNING" ->
           (CASE goal = "JOB_STOP" ->
                   (IF has_main /\ main_pid > 0
                    THEN "JOB_PRE_STOP" ELSE "JOB_STOPPING")
              [] goal = "JOB_START" -> "JOB_STOPPING"
              [] OTHER -> "ASSERT")
      [] state = "JOB_PRE_STOP" ->
           (CASE goal = "JOB_STOP" -> "JOB_STOPPING"
              [] goal = "JOB_START" -> "JOB_RUNNING"
              [] goal = "JOB_RESPAWN" -> "JOB_STOPPING"
              [] OTHER -> "ASSERT")
      [] state = "JOB_STOPPING" ->
           (CASE goal = "JOB_STOP" -> "JOB_KILLED"
              [] goal = "JOB_START" -> "JOB_KILLED"
              [] OTHER -> "ASSERT")
      [] state = "JOB_KILLED" ->
           (CASE goal = "JOB_STOP" -> "JOB_POST_STOP"
              [] goal = "JOB_START" -> "JOB_POST_STOP"
              [] OTHER -> "ASSERT")
      [] state = "JOB_POST_STOP" ->
           (CASE goal = "JOB_STOP" -> "JOB_WAITING"
              [] goal = "JOB_START" -> "JOB_STARTING"
              [] OTHER -> "ASSERT")
      [] OTHER -> "ASSERT"

\* job_change_goal up to its switch: the goal is set
SetGoal(W, c, goal) ==
    IF Dead(W) \/ W.jobs[c].goal = goal THEN W
    ELSE [W EXCEPT !.jobs[c].goal = goal]

\* a job_next_state that tests only whether the class has a main process
\* when the running job is to stop
job_next_state_IgnorePid(W, c) ==
    LET job == W.jobs[c]
        state == NextState(job.state, job.goal,
                           "PROCESS_MAIN" \in W.classes[c].process, 1)
    IN  IF state = "ASSERT" THEN [state |-> job.state, W |-> Abort(W)]
        ELSE IF job.goal = "JOB_RESPAWN"
        THEN [state |-> state, W |-> SetGoal(W, c, "JOB_START")]
        ELSE [state |-> state, W |-> W]

\* a job_next_state that takes the RESPAWN goal in RUNNING as well
job_next_state_RespawnRunning(W, c) ==
    LET job == W.jobs[c]
        state == IF job.state = "JOB_RUNNING" /\ job.goal = "JOB_RESPAWN"
                 THEN "JOB_STOPPING"
                 ELSE NextState(job.state, job.goal,
                                "PROCESS_MAIN" \in W.classes[c].process,
                                job.pid["PROCESS_MAIN"])
    IN  IF state = "ASSERT" THEN [state |-> job.state, W |-> Abort(W)]
        ELSE IF job.goal = "JOB_RESPAWN"
        THEN [state |-> state, W |-> SetGoal(W, c, "JOB_START")]
        ELSE [state |-> state, W |-> W]

\* a job_next_state that sends a job stopped in STARTING back to WAITING
job_next_state_StartingToWaiting(W, c) ==
    LET job == W.jobs[c]
        state == IF job.state = "JOB_STARTING" /\ job.goal = "JOB_STOP"
                 THEN "JOB_WAITING"
                 ELSE NextState(job.state, job.goal,
                                "PROCESS_MAIN" \in W.classes[c].process,
                                job.pid["PROCESS_MAIN"])
    IN  IF state = "ASSERT" THEN [state |-> job.state, W |-> Abort(W)]
        ELSE IF job.goal = "JOB_RESPAWN"
        THEN [state |-> state, W |-> SetGoal(W, c, "JOB_START")]
        ELSE [state |-> state, W |-> W]

\* a job_next_state that leaves the goal RESPAWN as it is
job_next_state_KeepRespawn(W, c) ==
    IF NextState(W.jobs[c].state, W.jobs[c].goal,
                 "PROCESS_MAIN" \in W.classes[c].process,
                 W.jobs[c].pid["PROCESS_MAIN"]) = "ASSERT"
    THEN [state |-> W.jobs[c].state, W |-> Abort(W)]
    ELSE [state |-> NextState(W.jobs[c].state, W.jobs[c].goal,
                              "PROCESS_MAIN" \in W.classes[c].process,
                              W.jobs[c].pid["PROCESS_MAIN"]),
          W |-> W]

\* job_next_state: the suggested state, and the graph after the call (the
\* job_change_goal of the RESPAWN cases finds the job in POST_START or
\* PRE_STOP, where its switch does nothing)
job_next_state(W, c) ==
    LET job == W.jobs[c]
        state == NextState(job.state, job.goal,
                           "PROCESS_MAIN" \in W.classes[c].process,
                           job.pid["PROCESS_MAIN"])
    IN  IF state = "ASSERT" THEN [state |-> job.state, W |-> Abort(W)]
        ELSE IF job.goal = "JOB_RESPAWN"
        THEN [state |-> state, W |-> SetGoal(W, c, "JOB_START")]
        ELSE [state |-> state, W |-> W]

\* a job_failed that records every failure
job_failed_Again(W, c, process, status) ==
    job_finished([W EXCEPT !.jobs[c].failed = TRUE,
                           !.jobs[c].failed_process = process,
                           !.jobs[c].exit_status = status],
                 c, TRUE)

job_failed(W, c, process, status) ==
    IF W.jobs[c].failed THEN W
    ELSE job_finished([W EXCEPT !.jobs[c].failed = TRUE,
                                !.jobs[c].failed_process = process,
                                !.jobs[c].exit_status = status],
                      c, TRUE)

\* a case of job_change_state ends: the state to change to next (the state
\* just entered when the loop is to stop) and the graph
Break(W, state) == [state |-> state, W |-> W]

\* state = job_next_state (job)
Advance(W, c) == IF Dead(W) THEN Break(W, "") ELSE job_next_state(W, c)

\* a RunProcess that takes every spawn failure for a failure of the job
RunProcess_AlwaysFatal(W, c, state, process, fatal, stay) ==
    IF process \in W.classes[c].process
    THEN IF job_process_run(W, c, process).ret < 0
         THEN Advance(SetGoal(job_failed(job_process_run(W, c, process).W,
                                         c, process, -1),
                              c, "JOB_STOP"), c)
         ELSE IF stay THEN Break(job_process_run(W, c, process).W, state)
         ELSE Advance(job_process_run(W, c, process).W, c)
    ELSE Advance(W, c)

\* the process of the state is run if the class has one; fatal says
\* whether a spawn failure fails the job and sets the goal to STOP (the
\* job_change_goal of these cases finds the job in PRE_START, SPAWNED or
\* POST_STOP, where its switch does nothing); stay says whether a
\* successful spawn leaves the job in the state
RunProcess(W, c, state, process, fatal, stay) ==
    IF process \in W.classes[c].process
    THEN LET r == job_process_run(W, c, process)
         IN  IF r.ret < 0
             THEN Advance(IF fatal
                          THEN SetGoal(job_failed(r.W, c, process, -1), c,
                                       "JOB_STOP")
                          ELSE r.W, c)
             ELSE IF stay THEN Break(r.W, state)
             ELSE Advance(r.W, c)
    ELSE Advance(W, c)

\* the end of the WAITING case: the job leaves the instances of its class
\* and is freed
FreeJob(W, c) ==
    IF Dead(W) THEN W
    ELSE Trace([W EXCEPT !.jobs = Drop(@, c)], [op |-> "remove", job |-> c])

\* an entry to RUNNING that emits the started event on the way back from
\* PRE_STOP as well
EnterRunning_StartedAgain(W, c, old_state) ==
    IF W.classes[c].task
    THEN job_emit_event(W, c)
    ELSE job_finished(job_emit_event(
                          [W EXCEPT !.jobs[c].stop_env = <<>>], c),
                      c, FALSE)

\* an entry to RUNNING that resolves the waiters of a task as well
EnterRunning_TaskResolved(W, c, old_state) ==
    IF old_state = "JOB_PRE_STOP"
    THEN job_finished([W EXCEPT !.jobs[c].stop_env = <<>>], c, FALSE)
    ELSE job_finished(job_emit_event(W, c), c, FALSE)

\* the JOB_RUNNING case of job_change_state
EnterRunning(W, c, old_state) ==
    IF old_state = "JOB_PRE_STOP"
    THEN job_finished([W EXCEPT !.jobs[c].stop_env = <<>>], c, FALSE)
    ELSE IF W.classes[c].task
    THEN job_emit_event(W, c)
    ELSE job_finished(job_emit_event(W, c), c, FALSE)

\* job_class_reconsider: whether the class is left unused
job_class_reconsider(W, c) == W.unused

\* a class that is due to be deleted and is unused is freed
FreeClass(W, c) ==
    IF Dead(W) THEN W
    ELSE IF W.classes[c].deleted /\ job_class_reconsider(W, c)
    THEN [W EXCEPT !.classes = Drop(@, c)]
    ELSE W

\* an entry to WAITING that leaves the job among the instances
EnterWaiting_KeepJob(W, c) ==
    job_finished(job_emit_event(W, c), c, FALSE)

\* an entry to WAITING that frees every class that is due to be deleted
EnterWaiting_FreeDeleted(W, c) ==
    LET W1 == FreeJob(job_finished(job_emit_event(W, c), c, FALSE), c)
    IN  IF ~Dead(W1) /\ W1.classes[c].deleted
        THEN [W1 EXCEPT !.classes = Drop(@, c)]
        ELSE W1

\* the JOB_WAITING case of job_change_state: the stopped event is emitted,
\* the waiters are resolved, then the job leaves the instances and the
\* class, or else the job, is freed
EnterWaiting(W, c) ==
    FreeClass(FreeJob(job_finished(job_emit_event(W, c), c, FALSE), c), c)

\* the assertions at the head of each case of the switch of
\* job_change_state
EntryAsserts(state, goal, old_state) ==
    CASE state = "JOB_STARTING" ->
           goal = "JOB_START" /\ old_state \in {"JOB_WAITING", "JOB_POST_STOP"}
      [] state = "JOB_PRE_START" ->
           goal = "JOB_START" /\ old_state = "JOB_STARTING"
      [] state = "JOB_SPAWNED" ->
           goal = "JOB_START" /\ old_state = "JOB_PRE_START"
      [] state = "JOB_POST_START" ->
           goal = "JOB_START" /\ old_state = "JOB_SPAWNED"
      [] state = "JOB_RUNNING" ->
           goal = "JOB_START"
           /\ old_state \in {"JOB_POST_START", "JOB_PRE_STOP"}
      [] state = "JOB_PRE_STOP" ->
           goal = "JOB_STOP" /\ old_state = "JOB_RUNNING"
      [] state = "JOB_STOPPING" ->
           old_state \in {"JOB_STARTING", "JOB_PRE_START", "JOB_SPAWNED",
                          "JOB_POST_START", "JOB_RUNNING", "JOB_PRE_STOP"}
      [] state = "JOB_KILLED" -> old_state = "JOB_STOPPING"
      [] state = "JOB_POST_STOP" -> old_state = "JOB_KILLED"
      [] state = "JOB_WAITING" ->
           goal = "JOB_STOP" /\ old_state \in {"JOB_POST_STOP", "JOB_STARTING"}
      [] OTHER -> FALSE

\* the switch of job_change_state: the action on entering state
EnterState(W, c, state, old_state) ==
    LET job == W.jobs[c]
    IN  IF ~EntryAsserts(state, job.goal, old_state)
        THEN Break(Abort(W), state)
        ELSE
        CASE state = "JOB_STARTING" ->
               LET W1 == [W EXCEPT
                          !.jobs[c].env = IF job.start_env # <<>>
                                          THEN job.start_env ELSE @,
                          !.jobs[c].start_env = <<>>,
                          !.jobs[c].stop_env = <<>>,
                          !.jobs[c].failed = FALSE,
                          !.jobs[c].failed_process = PROCESS_NONE,
                          !.jobs[c].exit_status = 0]
               IN  Break(SetBlocker(job_emit_event(W1, c), c), state)
          [] state = "JOB_PRE_START" ->
               RunProcess(W, c, state, "PROCESS_PRE_START", TRUE, TRUE)
          [] state = "JOB_SPAWNED" ->
               RunProcess(W, c, state, "PROCESS_MAIN", TRUE,
                          W.classes[c].expect)
          [] state = "JOB_POST_START" ->
               RunProcess(W, c, state, "PROCESS_POST_START", FALSE, TRUE)
          [] state = "JOB_RUNNING" ->
               Break(EnterRunning(W, c, old_state), state)
          [] state = "JOB_PRE_STOP" ->
               RunProcess(W, c, state, "PROCESS_PRE_STOP", FALSE, TRUE)
          [] state = "JOB_STOPPING" ->
               Break(SetBlocker(job_emit_event(W, c), c), state)
          [] state = "JOB_KILLED" ->
               IF "PROCESS_MAIN" \in W.classes[c].process
                  /\ job.pid["PROCESS_MAIN"] > 0
               THEN Break(job_process_kill(W, c, "PROCESS_MAIN"), state)
               ELSE Advance(W, c)
          [] state = "JOB_POST_STOP" ->
               RunProcess(W, c, state, "PROCESS_POST_STOP", TRUE, TRUE)
          [] state = "JOB_WAITING" -> Break(EnterWaiting(W, c), state)

\* job_change_state: the loop while (job->state != state); it returns when
\* the job has been freed on entering WAITING
RECURSIVE job_change_state(_, _, _)
RECURSIVE ChangeTo(_, _)

job_change_state(W, c, state) ==
    IF Dead(W) \/ c \notin DOMAIN W.jobs THEN W
    ELSE IF W.jobs[c].state = state THEN W
    ELSE IF W.jobs[c].blocker # NULL THEN Abort(W)
    ELSE ChangeTo(EnterState([W EXCEPT !.jobs[c].state = state], c, state,
                             W.jobs[c].state), c)

\* the loop goes on with the state to change to next
ChangeTo(r, c) == job_change_state(r.W, c, r.state)

\* job_change_state (job, job_next_state (job))
ChangeToNext(W, c) ==
    IF Dead(W) THEN W ELSE ChangeTo(job_next_state(W, c), c)

\* a job_change_goal that stops a job waiting in STARTING at once
job_change_goal_Impatient(W, c, goal) ==
    IF Dead(W) \/ W.jobs[c].goal = goal THEN W
    ELSE LET W1 == SetGoal(W, c, goal)
         IN  IF \/ goal = "JOB_START" /\ W1.jobs[c].state = "JOB_WAITING"
                \/ goal = "JOB_STOP" /\ W1.jobs[c].state = "JOB_RUNNING"
             THEN ChangeToNext(W1, c)
             ELSE IF goal = "JOB_STOP" /\ W1.jobs[c].state = "JOB_STARTING"
             THEN ChangeToNext([W1 EXCEPT !.jobs[c].blocker = NULL], c)
             ELSE W1

\* a job_change_goal that frees a RUNNING job that is to stop
job_change_goal_Destroys(W, c, goal) ==
    IF Dead(W) \/ W.jobs[c].goal = goal THEN W
    ELSE LET W1 == SetGoal(W, c, goal)
         IN  IF goal = "JOB_START" /\ W1.jobs[c].state = "JOB_WAITING"
             THEN ChangeToNext(W1, c)
             ELSE IF goal = "JOB_STOP" /\ W1.jobs[c].state = "JOB_RUNNING"
             THEN [W1 EXCEPT !.jobs = Drop(@, c)]
             ELSE W1

\* a job_change_goal that takes the job on in whatever state it is
job_change_goal_AnyState(W, c, goal) ==
    IF Dead(W) \/ W.jobs[c].goal = goal THEN W
    ELSE ChangeToNext(SetGoal(W, c, goal), c)

\* a job_change_goal that sets the goal and leaves the state to later
job_change_goal_NoInduction(W, c, goal) == SetGoal(W, c, goal)

job_change_goal(W, c, goal) ==
    IF Dead(W) \/ W.jobs[c].goal = goal THEN W
    ELSE LET W1 == SetGoal(W, c, goal)
         IN  IF \/ goal = "JOB_START" /\ W1.jobs[c].state = "JOB_WAITING"
                \/ goal = "JOB_STOP" /\ W1.jobs[c].state = "JOB_RUNNING"
             THEN ChangeToNext(W1, c)
             ELSE W1

(***************************************************************************)
(* event_operator.c, for operators that are disjunctions of MATCH nodes    *)
(***************************************************************************)
\* event_operator_handle followed by the test of the root value
event_operator_handle(oper, W, e) == W.events[e].name \in oper

\* event_operator_environment: the variable naming the matched events
event_operator_environment(W, e, key) == <<<<key, W.events[e].name>>>>

\* event_operator_events: a Blocked record for the matched event is added
\* to the blocking list of the job and the event is blocked
event_operator_events(W, c, e) ==
    IF Dead(W) THEN W
    ELSE event_block([W EXCEPT !.jobs[c].blocking =
                                   Append(@, blocked_new_event(e))], e)

\* job_class_environment: the environment a class gives its instances
job_class_environment(c) == <<<<"UPSTART_JOB", c>>>>

(***************************************************************************)
(* event.c: event_pending_handle_jobs                                      *)
(***************************************************************************)
\* the order in which NIH_HASH_FOREACH visits job_classes
ClassOrder == <<"a", "b">>

\* the stop match of one instance
HandleStop(W, c, e) ==
    IF c \in DOMAIN W.jobs
       /\ W.classes[c].stop_on # {}
       /\ event_operator_handle(W.classes[c].stop_on, W, e)
    THEN IF W.jobs[c].goal # "JOB_STOP"
         THEN job_change_goal(
                  event_operator_events(
                      job_finished(
                          [W EXCEPT !.jobs[c].stop_env =
                               event_operator_environment(
                                   W, e, "UPSTART_STOP_EVENTS")],
                          c, FALSE),
                      c, e),
                  c, "JOB_STOP")
         ELSE W
    ELSE W

\* the instance of a class whose start_on has matched is started
StartInstance(W, c, e) ==
    IF W.jobs[c].goal # "JOB_START"
    THEN job_change_goal(
             event_operator_events(
                 job_finished(
                     [W EXCEPT !.jobs[c].start_env =
                          job_class_environment(c) \o
                          event_operator_environment(W, e, "UPSTART_EVENTS")],
                     c, FALSE),
                 c, e),
             c, "JOB_START")
    ELSE W

\* the start match of one class
HandleStart(W, c, e) ==
    IF ~Dead(W)
       /\ W.classes[c].start_on # {}
       /\ event_operator_handle(W.classes[c].start_on, W, e)
    THEN StartInstance(IF c \in DOMAIN W.jobs THEN W ELSE job_new(W, c),
                       c, e)
    ELSE W

\* a loop body that matches start_on before stop_on
HandleClass_StartFirst(W, c, e) ==
    IF W.events[e].session # NULL
       /\ W.classes[c].session # W.events[e].session
    THEN W
    ELSE HandleStop(HandleStart(W, c, e), c, e)

\* the body of the loop over job_classes
HandleClass(W, c, e) ==
    IF W.events[e].session # NULL
       /\ W.classes[c].session # W.events[e].session
    THEN W
    ELSE HandleStart(HandleStop(W, c, e), c, e)

RECURSIVE HandleClasses(_, _, _)
HandleClasses(W, cs, e) ==
    IF cs = <<>> \/ Dead(W) THEN W
    ELSE HandleClasses(HandleClass(W, Head(cs), e), Tail(cs), e)

event_pending_handle_jobs(W, e) ==
    HandleClasses(W, SelectSeq(ClassOrder, LAMBDA c : c \in DOMAIN W.classes),
                  e)

\* an event_pending that leaves the progress of the event alone
event_pending_KeepProgress(W, e) ==
    IF W.events[e].progress # "EVENT_PENDING" THEN Abort(W)
    ELSE event_pending_handle_jobs(W, e)

event_pending(W, e) ==
    IF W.events[e].progress # "EVENT_PENDING" THEN Abort(W)
    ELSE event_pending_handle_jobs(
             [W EXCEPT !.events[e].progress = "EVENT_HANDLING"], e)

(***************************************************************************)
(* event.c: event_finished                                                 *)
(***************************************************************************)
\* an event_finished that answers every waiting caller with success
FinishedBlocked_AlwaysSuccess(W, e, blocked) ==
    CASE blocked.type = "BLOCKED_JOB" ->
           ChangeToNext([W EXCEPT !.jobs[blocked.job].blocker = NULL],
                        blocked.job)
      [] blocked.type = "BLOCKED_EMIT_METHOD" -> Reply(W, blocked, "")
      [] OTHER -> Abort(W)

\* one entry of event->blocking
FinishedBlocked(W, e, blocked) ==
    CASE blocked.type = "BLOCKED_JOB" ->
           ChangeToNext([W EXCEPT !.jobs[blocked.job].blocker = NULL],
                        blocked.job)
      [] blocked.type = "BLOCKED_EMIT_METHOD" ->
           Reply(W, blocked,
                 IF W.events[e].failed THEN "EventFailed" ELSE "")
      [] OTHER -> Abort(W)

\* the loop over event->blocking
RECURSIVE FinishedBlocking(_, _, _)
FinishedBlocking(W, e, blocking) ==
    IF blocking = <<>> \/ Dead(W) THEN W
    ELSE FinishedBlocking(FinishedBlocked(W, e, Head(blocking)), e,
                          Tail(blocking))

\* strrchr (event->name, '/') is NULL or differs from "/failed"
NotFailedName(name) == Len(name) < 2 \/ name[Len(name)] # "failed"

\* the new event takes the session and a copy of the environment
CopyTo(W, id, event) ==
    IF Dead(W) THEN W
    ELSE [W EXCEPT !.events[id].session = event.session,
                   !.events[id].env = event.env]

\* an event_finished that follows every failed event by a failed event
EmitFailed_AnyName(W, e) ==
    IF ~Dead(W) /\ W.events[e].failed
    THEN CopyTo(event_new(W, W.events[e].name \o <<"failed">>, <<>>),
                NewEvent(W), W.events[e])
    ELSE W

\* a failed event is followed by its failed event
EmitFailed(W, e) ==
    IF ~Dead(W) /\ W.events[e].failed /\ NotFailedName(W.events[e].name)
    THEN CopyTo(event_new(W, W.events[e].name \o <<"failed">>, <<>>),
                NewEvent(W), W.events[e])
    ELSE W

\* nih_free (event): the event leaves the list, and the events behind it
\* move up one place
FreeEvent(W, e) ==
    IF Dead(W) THEN W
    ELSE [W EXCEPT
            !.events = RemoveAt(@, e),
            !.jobs = [c \in DOMAIN @ |->
                        [@[c] EXCEPT
                           !.blocker = Moved(e, @),
                           !.blocking =
                               [i \in DOMAIN @ |->
                                  [@[i] EXCEPT !.event = Moved(e, @)]]]]]

event_finished(W, e) ==
    IF W.events[e].progress # "EVENT_FINISHED" THEN Abort(W)
    ELSE FreeEvent(EmitFailed(FinishedBlocking(W, e, W.events[e].blocking),
                              e),
                   e)

(***************************************************************************)
(* event.c: the events in the state passed over a re-exec                  *)
(***************************************************************************)
\* the index a session is serialised as, and the session of an index
session_get_index(session) == session
session_from_index(index) == index

\* the JSON object of an event
event_serialise(event) ==
    [name |-> event.name, session |-> session_get_index(event.session),
     fd |-> event.fd, env |-> event.env]

\* the JSON array of the events list
event_serialise_all(queue) == [i \in DOMAIN queue |-> event_serialise(queue[i])]

\* the partial event read from a JSON object
event_deserialise(json) ==
    [name |-> json.name, fd |-> json.fd,
     session |-> session_from_index(json.session), env |-> json.env]

\* event->session = partial->session
SetSession(W, session) ==
    IF Dead(W) THEN W
    ELSE [W EXCEPT !.events[LastEvent(W)].session = session]

\* a new event is created for each object of the JSON array
RECURSIVE event_deserialise_all(_, _)
event_deserialise_all(W, jevents) ==
    IF jevents = <<>> \/ Dead(W) THEN W
    ELSE event_deserialise_all(
             SetSession(event_new(W, event_deserialise(Head(jevents)).name,
                                  event_deserialise(Head(jevents)).env),
                        event_deserialise(Head(jevents)).session),
             Tail(jevents))

(***************************************************************************)
(* job_process.c: the child reaper                                         *)
(***************************************************************************)
\* the exit statuses a child ends with
ExitStatuses == {0, 1}

FailIf(cond, W, c, process, status) ==
    IF cond /\ ~Dead(W) THEN job_failed(W, c, process, status) ELSE W

GoalIf(cond, W, c, goal) ==
    IF cond THEN job_change_goal(W, c, goal) ELSE W

ChangeIf(cond, W, c) ==
    IF cond THEN ChangeToNext(W, c) ELSE W

ClearPid(W, c, process) ==
    IF Dead(W) THEN W ELSE [W EXCEPT !.jobs[c].pid[process] = 0]

\* job_process_terminated; runaway is the answer of the respawn rate limit
job_process_terminated(W, c, process, status, runaway) ==
    LET job == W.jobs[c]
        class == W.classes[c]
        is_main == process = "PROCESS_MAIN"
        \* the state is left alone while a post-start or pre-stop process
        \* runs, and while the stopping event is awaited
        waits == \/ /\ job.state = "JOB_POST_START"
                    /\ job.pid["PROCESS_POST_START"] > 0
                 \/ /\ job.state = "JOB_PRE_STOP"
                    /\ job.pid["PROCESS_PRE_STOP"] > 0
                 \/ job.state = "JOB_STOPPING"
        judged == is_main /\ job.state \notin {"JOB_KILLED", "JOB_STOPPING"}
        abnormal == judged /\ job.goal = "JOB_START"
                    /\ (status # 0 \/ (class.respawn /\ ~class.task))
        respawn == abnormal /\ class.respawn /\ ~runaway
        toofast == abnormal /\ class.respawn /\ runaway
        failed == IF is_main THEN abnormal /\ ~class.respawn
                  ELSE process \in {"PROCESS_PRE_START", "PROCESS_POST_STOP"}
                       /\ status # 0
        stop == IF is_main THEN judged /\ ~respawn ELSE failed
        state == IF is_main THEN ~waits /\ ~(stop /\ job.state = "JOB_RUNNING")
                 ELSE TRUE
        legal == CASE is_main ->
                        job.state \in {"JOB_RUNNING", "JOB_SPAWNED",
                                       "JOB_KILLED", "JOB_STOPPING",
                                       "JOB_POST_START", "JOB_PRE_STOP"}
                   [] process = "PROCESS_PRE_START" ->
                        job.state = "JOB_PRE_START"
                   [] process = "PROCESS_POST_START" ->
                        job.state = "JOB_POST_START"
                   [] process = "PROCESS_PRE_STOP" ->
                        job.state = "JOB_PRE_STOP"
                   [] process = "PROCESS_POST_STOP" ->
                        job.state = "JOB_POST_STOP"
    IN  IF ~legal THEN Abort(W)
        ELSE ChangeIf(state,
                 GoalIf(stop,
                     FailIf(failed,
                         ClearPid(
                             GoalIf(respawn /\ waits,
                                 FailIf(toofast, W, c, PROCESS_NONE, -1),
                                 c, "JOB_RESPAWN"),
                             c, process),
                         c, process, status),
                     c, "JOB_STOP"),
                 c)

(***************************************************************************)
(* job.c: the Start, Stop and Restart methods of an instance               *)
(***************************************************************************)
Sessions == {NULL, 1}

\* the job with its blocking list resolved and the Blocked record of a
\* waiting caller added
AddBlocked(W, c, type, wait) ==
    IF Dead(W) \/ ~wait THEN W
    ELSE [W EXCEPT !.jobs[c].blocking =
                       Append(@, blocked_new_message(type, 1))]

\* an Accept that adds the record to the list as it finds it
Accept_KeepBlocking(W, c, type, wait) == AddBlocked(W, c, type, wait)

Accept(W, c, type, wait) ==
    AddBlocked(job_finished(W, c, FALSE), c, type, wait)

\* the method returns: with the D-Bus error raised (-1), or with 0, after
\* the reply that a caller that does not wait is sent
Return(W, error, wait) ==
    Trace(W, [op |-> "return", error |-> error,
              reply |-> (error = "" /\ ~wait)])

\* a job_start that starts a job of any session
job_start_AnySession(W, c, session, wait) ==
    IF W.jobs[c].goal = "JOB_START"
    THEN Return(W, "AlreadyStarted", wait)
    ELSE Return(job_change_goal(
                    Accept([W EXCEPT !.jobs[c].start_env = <<>>], c,
                           "BLOCKED_INSTANCE_START_METHOD", wait),
                    c, "JOB_START"),
                "", wait)

job_start(W, c, session, wait) ==
    IF session # W.classes[c].session
    THEN Return(W, "PermissionDenied", wait)
    ELSE IF W.jobs[c].goal = "JOB_START"
    THEN Return(W, "AlreadyStarted", wait)
    ELSE Return(job_change_goal(
                    Accept([W EXCEPT !.jobs[c].start_env = <<>>], c,
                           "BLOCKED_INSTANCE_START_METHOD", wait),
                    c, "JOB_START"),
                "", wait)

job_stop(W, c, session, wait) ==
    IF session # W.classes[c].session
    THEN Return(W, "PermissionDenied", wait)
    ELSE IF W.jobs[c].goal = "JOB_STOP"
    THEN Return(W, "AlreadyStopped", wait)
    ELSE Return(job_change_goal(
                    Accept([W EXCEPT !.jobs[c].stop_env = <<>>], c,
                           "BLOCKED_INSTANCE_STOP_METHOD", wait),
                    c, "JOB_STOP"),
                "", wait)

job_restart(W, c, session, wait) ==
    IF session # W.classes[c].session
    THEN Return(W, "PermissionDenied", wait)
    ELSE IF W.jobs[c].goal = "JOB_STOP"
    THEN Return(W, "AlreadyStopped", wait)
    ELSE Return(job_change_goal(
                    job_change_goal(
                        Accept([W EXCEPT !.jobs[c].start_env = <<>>,
                                         !.jobs[c].stop_env = <<>>], c,
                               "BLOCKED_INSTANCE_RESTART_METHOD", wait),
                        c, "JOB_STOP"),
                    c, "JOB_START"),
                "", wait)

(***************************************************************************)
(* control.c: the EmitEvent method                                         *)
(***************************************************************************)
\* a caller that waits is kept in the blocking list of the new event
AwaitEvent(W, wait) ==
    IF Dead(W) \/ ~wait THEN W
    ELSE [W EXCEPT !.events[LastEvent(W)].blocking =
                       Append(@, blocked_new_message("BLOCKED_EMIT_METHOD",
                                                     1))]

control_emit_event(W, name, wait) ==
    AwaitEvent(event_new(W, name, <<>>), wait)

(***************************************************************************)
(* The state machine                                                       *)
(***************************************************************************)
Init ==
    /\ classes \in Configs
    /\ jobs = <<>>
    /\ events = <<>>
    /\ aborted = FALSE
    /\ pc = "main"
    /\ iter = NULL
    /\ next_iter = NULL
    /\ poll_again = FALSE
    /\ ret = [kind |-> "none"]

\* the graph a handler leaves becomes the state
StoreGraph(W) ==
    /\ ~W.exhausted
    /\ classes' = W.classes
    /\ jobs' = W.jobs
    /\ events' = W.events
    /\ aborted' = W.aborted

\* the run is logged from its start
Logged == ret.kind = "log"

\* the run is logged handler by handler
Stepped == ret.kind = "step"

\* the run is logged handler by handler, with the answer that
\* job_class_reconsider was to give
Reloaded == ret.kind = "reload"

\* the graph a handler leaves becomes the state; in a run logged from its
\* start the trace of the handler joins the log, which holds MaxLog
\* entries, and in a run logged handler by handler it takes the place of
\* the log, whose tick tells one handler from the next
Store(W) ==
    /\ StoreGraph(W)
    /\ Logged => Len(ret.log) + Len(W.trace) <= MaxLog
    /\ ret' = CASE Logged -> [ret EXCEPT !.log = @ \o W.trace]
                [] Stepped -> [ret EXCEPT !.log = W.trace, !.tick = 1 - @]
                [] Reloaded -> [ret EXCEPT !.log = W.trace, !.tick = 1 - @,
                                           !.unused = W.unused]
                [] OTHER -> ret

\* the main loop runs its IO handlers
InMain == pc = "main" /\ ~aborted

\* the answers of the spawner during one handler: every spawn succeeds, or
\* the spawns of one process of one class fail
SpawnFailsOf(cs) ==
    {{}} \cup UNION {{{<<c, p>>} : p \in classes[c].process} : c \in cs}

SpawnFails == SpawnFailsOf(DOMAIN classes)

\* the answers of job_class_reconsider during one handler: the registry
\* of the class is not part of the graph, so that a class that is due to
\* be deleted is reported unused or not
Reconsiders ==
    IF \E c \in DOMAIN classes : classes[c].deleted
    THEN BOOLEAN ELSE {TRUE}

\* the answers given during one handler
AnswersOf(cs) ==
    {[spawn_fails |-> fails, unused |-> unused] :
        fails \in SpawnFailsOf(cs), unused \in Reconsiders}

Answers == AnswersOf(DOMAIN classes)

\* an event is emitted from outside (control_emit_event, a signal handler)
Emit(name) ==
    /\ InMain
    /\ Len(events) < MaxQueue
    /\ Store(event_new(World, name, <<>>))
    /\ UNCHANGED <<pc, iter, next_iter, poll_again>>

JobStart(c, session, wait) ==
    /\ InMain
    /\ c \in DOMAIN jobs
    /\ \E answers \in AnswersOf({c}) :
         Store(job_start(WorldOn([op |-> "call", method |-> "job_start",
                                    job |-> c, session |-> session,
                                    wait |-> wait], answers),
                          c, session, wait))
    /\ UNCHANGED <<pc, iter, next_iter, poll_again>>

JobStop(c, session, wait) ==
    /\ InMain
    /\ c \in DOMAIN jobs
    /\ \E answers \in AnswersOf({c}) :
         Store(job_stop(WorldOn([op |-> "call", method |-> "job_stop",
                                    job |-> c, session |-> session,
                                    wait |-> wait], answers),
                          c, session, wait))
    /\ UNCHANGED <<pc, iter, next_iter, poll_again>>

JobRestart(c, session, wait) ==
    /\ InMain
    /\ c \in DOMAIN jobs
    /\ \E answers \in AnswersOf({c}) :
         Store(job_restart(WorldOn([op |-> "call", method |-> "job_restart",
                                    job |-> c, session |-> session,
                                    wait |-> wait], answers),
                          c, session, wait))
    /\ UNCHANGED <<pc, iter, next_iter, poll_again>>

\* a child exit is reaped
ChildExit(c, process, status, runaway) ==
    /\ InMain
    /\ c \in DOMAIN jobs
    /\ jobs[c].pid[process] > 0
    /\ \E answers \in AnswersOf({c}) :
         Store(job_process_terminated(
                   WorldOn([op |-> "exit", job |-> c, process |-> process,
                            status |-> status], answers),
                   c, process, status, runaway))
    /\ UNCHANGED <<pc, iter, next_iter, poll_again>>

\* the fork tracer reports the main process of an expect class
TraceDone(c) ==
    /\ InMain
    /\ c \in DOMAIN jobs
    /\ classes[c].expect
    /\ jobs[c].state = "JOB_SPAWNED"
    /\ jobs[c].pid["PROCESS_MAIN"] > 0
    /\ \E answers \in AnswersOf({c}) :
         Store(ChangeToNext(WorldOn([op |-> "traced", job |-> c], answers),
                            c))
    /\ UNCHANGED <<pc, iter, next_iter, poll_again>>

\* event_poll is called: the first pass begins
EventPoll ==
    /\ InMain
    /\ pc' = "foreach"
    /\ poll_again' = FALSE
    /\ iter' = FirstEntry(events)
    /\ next_iter' = NextEntry(events, FirstEntry(events))
    /\ UNCHANGED <<classes, jobs, events, aborted, ret>>

\* the loop moves to the cached next entry, now at place next, and caches
\* the one after it
Step(next) ==
    /\ pc' = "foreach"
    /\ iter' = next
    /\ next_iter' = NextEntry(events', next)

\* a case EVENT_PENDING that does not ask for another pass
EventPending_NoPollAgain ==
    /\ pc = "foreach" /\ ~aborted
    /\ iter # NULL
    /\ events[iter].progress = "EVENT_PENDING"
    /\ \E answers \in Answers :
         Store(event_pending(WorldWith(answers), iter))
    /\ pc' = "handling"
    /\ UNCHANGED <<iter, next_iter, poll_again>>

\* case EVENT_PENDING, up to its fall through
EventPending ==
    /\ pc = "foreach" /\ ~aborted
    /\ iter # NULL
    /\ events[iter].progress = "EVENT_PENDING"
    /\ \E answers \in Answers :
         Store(event_pending(WorldWith(answers), iter))
    /\ poll_again' = TRUE
    /\ pc' = "handling"
    /\ UNCHANGED <<iter, next_iter>>

\* a case EVENT_HANDLING without the test of event->blockers
EventHandling_NoBlockersTest ==
    /\ ~aborted
    /\ iter # NULL
    /\ \/ pc = "handling"
       \/ pc = "foreach" /\ events[iter].progress = "EVENT_HANDLING"
    /\ events' = [events EXCEPT ![iter].progress = "EVENT_FINISHED"]
    /\ pc' = "finished"
    /\ UNCHANGED <<classes, jobs, aborted, poll_again, ret, iter, next_iter>>

\* case EVENT_HANDLING, up to its break or fall through
EventHandling ==
    /\ ~aborted
    /\ iter # NULL
    /\ \/ pc = "handling"
       \/ pc = "foreach" /\ events[iter].progress = "EVENT_HANDLING"
    /\ IF events[iter].blockers # 0
       THEN /\ UNCHANGED events
            /\ Step(next_iter)
       ELSE /\ events' = [events EXCEPT ![iter].progress = "EVENT_FINISHED"]
            /\ pc' = "finished"
            /\ UNCHANGED <<iter, next_iter>>
    /\ UNCHANGED <<classes, jobs, aborted, poll_again, ret>>

\* case EVENT_FINISHED
EventFinished ==
    /\ ~aborted
    /\ iter # NULL
    /\ \/ pc = "finished"
       \/ pc = "foreach" /\ events[iter].progress = "EVENT_FINISHED"
    /\ \E answers \in Answers :
         Store(event_finished(WorldWith(answers), iter))
    /\ poll_again' = TRUE
    /\ IF aborted' THEN UNCHANGED <<pc, iter, next_iter>>
       ELSE Step(Moved(iter, next_iter))

\* a pass ends with poll_again set: another pass begins
PollAgain ==
    /\ pc = "foreach" /\ ~aborted
    /\ iter = NULL
    /\ poll_again
    /\ poll_again' = FALSE
    /\ iter' = FirstEntry(events)
    /\ next_iter' = NextEntry(events, FirstEntry(events))
    /\ UNCHANGED <<classes, jobs, events, aborted, pc, ret>>

\* a pass ends without poll_again: event_poll returns
PollReturn ==
    /\ pc = "foreach" /\ ~aborted
    /\ iter = NULL
    /\ ~poll_again
    /\ pc' = "main"
    /\ UNCHANGED <<classes, jobs, events, aborted, iter, next_iter,
                   poll_again, ret>>

Next ==
    \/ \E name \in ExtNames : Emit(name)
    \/ \E c \in DOMAIN classes, session \in Sessions, wait \in BOOLEAN :
         JobStart(c, session, wait)
    \/ \E c \in DOMAIN classes, session \in Sessions, wait \in BOOLEAN :
         JobStop(c, session, wait)
    \/ \E c \in DOMAIN classes, session \in Sessions, wait \in BOOLEAN :
         JobRestart(c, session, wait)
    \/ \E c \in DOMAIN classes, process \in ProcessType,
          status \in ExitStatuses, runaway \in BOOLEAN :
         ChildExit(c, process, status, runaway)
    \/ \E c \in DOMAIN classes : TraceDone(c)
    \/ EventPoll
    \/ EventPending
    \/ EventHandling
    \/ EventFinished
    \/ PollAgain
    \/ PollReturn

Spec == Init /\ [][Next]_vars

\* where the loop of event_poll stands
PollPosition == <<pc, iter, poll_again>>

\* a step of event_poll: each case of its switch, the end of a pass and its
\* return move the position
PollMoves ==
    /\ pc # "main" /\ ~aborted
    /\ pc' \in {"main", "foreach", "handling", "finished"}
    /\ iter' \in 0..MaxEvents
    /\ poll_again' \in BOOLEAN

\* event_poll is one call in the single thread of the program, which
\* nothing suspends: once entered, its loop keeps taking steps
FairSpec == Spec /\ WF_PollPosition(PollMoves)

(***************************************************************************)
(* Logged runs: the inputs and the effects of the handlers are kept in     *)
(* ret, for a service and for a task with a main process; the callers of   *)
(* the methods may wait for their reply.  LogSpec logs a run from its      *)
(* start, StepSpec handler by handler.                                     *)
(***************************************************************************)
LogConfigs ==
    { [a |-> Class({<<"foo">>}, {<<"bar">>}, {"PROCESS_MAIN"},
                   FALSE, FALSE, FALSE)],
      [a |-> Class({<<"foo">>}, {}, {"PROCESS_MAIN"}, TRUE, FALSE, FALSE)] }

LogInit ==
    /\ classes \in LogConfigs
    /\ jobs = <<>>
    /\ events = <<>>
    /\ aborted = FALSE
    /\ pc = "main"
    /\ iter = NULL
    /\ next_iter = NULL
    /\ poll_again = FALSE
    /\ ret = [kind |-> "log", log |-> <<>>]

\* the EmitEvent method is called
EmitMethod(name, wait) ==
    /\ InMain
    /\ Len(events) < MaxQueue
    /\ Store(control_emit_event(World, name, wait))
    /\ UNCHANGED <<pc, iter, next_iter, poll_again>>

LogNext ==
    \/ \E name \in ExtNames, wait \in BOOLEAN : EmitMethod(name, wait)
    \/ \E c \in DOMAIN classes, wait \in BOOLEAN : JobStart(c, NULL, wait)
    \/ \E c \in DOMAIN classes, wait \in BOOLEAN : JobStop(c, NULL, wait)
    \/ \E c \in DOMAIN classes, wait \in BOOLEAN :
         JobRestart(c, NULL, wait)
    \/ \E c \in DOMAIN classes, process \in ProcessType,
          status \in ExitStatuses :
         ChildExit(c, process, status, FALSE)
    \/ EventPoll
    \/ EventPending
    \/ EventHandling
    \/ EventFinished
    \/ PollAgain
    \/ PollReturn

\* the runs in which no Start, Stop or Restart request is made
EventsNext ==
    \/ \E name \in ExtNames, wait \in BOOLEAN : EmitMethod(name, wait)
    \/ \E c \in DOMAIN classes, process \in ProcessType,
          status \in ExitStatuses :
         ChildExit(c, process, status, FALSE)
    \/ EventPoll
    \/ EventPending
    \/ EventHandling
    \/ EventFinished
    \/ PollAgain
    \/ PollReturn

\* the runs without requests, logged from their start
LogSpec == LogInit /\ [][EventsNext]_vars

\* the same runs, logged handler by handler
StepInit ==
    /\ classes \in LogConfigs
    /\ jobs = <<>>
    /\ events = <<>>
    /\ aborted = FALSE
    /\ pc = "main"
    /\ iter = NULL
    /\ next_iter = NULL
    /\ poll_again = FALSE
    /\ ret = [kind |-> "step", log |-> <<>>, tick |-> 0]

StepSpec == StepInit /\ [][LogNext]_vars

\* the runs with requests of every session, logged handler by handler
RequestNext ==
    \/ \E name \in ExtNames : EmitMethod(name, FALSE)
    \/ \E c \in DOMAIN classes, session \in Sessions, wait \in BOOLEAN :
         JobStart(c, session, wait)
    \/ \E c \in DOMAIN classes, session \in Sessions, wait \in BOOLEAN :
         JobStop(c, session, wait)
    \/ \E c \in DOMAIN classes, session \in Sessions, wait \in BOOLEAN :
         JobRestart(c, session, wait)
    \/ \E c \in DOMAIN classes, process \in ProcessType,
          status \in ExitStatuses :
         ChildExit(c, process, status, FALSE)
    \/ EventPoll
    \/ EventPending
    \/ EventHandling
    \/ EventFinished
    \/ PollAgain
    \/ PollReturn

RequestSpec == StepInit /\ [][RequestNext]_vars

(***************************************************************************)
(* Runs in which the configuration is reloaded: a class that has left the  *)
(* configuration is freed at once if it has no instance, and is marked     *)
(* deleted otherwise                                                       *)
(***************************************************************************)
ReloadInit ==
    /\ classes \in LogConfigs
    /\ jobs = <<>>
    /\ events = <<>>
    /\ aborted = FALSE
    /\ pc = "main"
    /\ iter = NULL
    /\ next_iter = NULL
    /\ poll_again = FALSE
    /\ ret = [kind |-> "reload", log |-> <<>>, tick |-> 0, unused |-> TRUE]

\* the configuration is reloaded and no longer holds class c
ConfReload(c) ==
    /\ InMain
    /\ ~classes[c].deleted
    /\ classes' = IF c \in DOMAIN jobs
                  THEN [classes EXCEPT ![c].deleted = TRUE]
                  ELSE Drop(classes, c)
    /\ UNCHANGED <<jobs, events, aborted, pc, iter, next_iter, poll_again,
                   ret>>

ReloadNext ==
    \/ \E name \in ExtNames : EmitMethod(name, FALSE)
    \/ \E c \in DOMAIN classes : JobStart(c, NULL, FALSE)
    \/ \E c \in DOMAIN classes, wait \in BOOLEAN : JobStop(c, NULL, wait)
    \/ \E c \in DOMAIN classes, process \in ProcessType,
          status \in ExitStatuses :
         ChildExit(c, process, status, FALSE)
    \/ EventPoll
    \/ EventPending
    \/ EventHandling
    \/ EventFinished
    \/ PollAgain
    \/ PollReturn
    \/ \E c \in DOMAIN classes : ConfReload(c)

ReloadSpec == ReloadInit /\ [][ReloadNext]_vars

(***************************************************************************)
(* job_next_state called on its own, for a job in any state and with any   *)
(* goal, of a class with or without a main process                         *)
(***************************************************************************)
NextStateClasses ==
    {[a |-> Class({}, {}, process, FALSE, FALSE, FALSE)] :
        process \in {{}, {"PROCESS_MAIN"}}}

\* the world with the classes cs and nothing else
EmptyWorld(cs) ==
    [classes |-> cs, jobs |-> <<>>, events |-> <<>>, aborted |-> FALSE,
     exhausted |-> FALSE, spawn_fails |-> {}, unused |-> TRUE,
     trace |-> <<>>]

NextStateInit ==
    /\ classes \in NextStateClasses
    /\ \E state \in JobState, goal \in JobGoal,
          pid \in {0, PidOf("a", "PROCESS_MAIN")} :
         jobs = [job_new(EmptyWorld(classes), "a").jobs EXCEPT
                   !["a"].state = state,
                   !["a"].goal = goal,
                   !["a"].pid["PROCESS_MAIN"] = pid]
    /\ events = <<>>
    /\ aborted = FALSE
    /\ pc = "call"
    /\ iter = NULL
    /\ next_iter = NULL
    /\ poll_again = FALSE
    /\ ret = NULL

\* the call: ret takes the job as it was, with its state and goal, and the
\* state returned, "ASSERT" when the call did not return
CallNextState ==
    /\ pc = "call"
    /\ StoreGraph(job_next_state(World, "a").W)
    /\ ret' = [state |-> jobs["a"].state,
               goal |-> jobs["a"].goal,
               job |-> jobs["a"],
               next |-> IF job_next_state(World, "a").W.aborted
                        THEN "ASSERT"
                        ELSE job_next_state(World, "a").state]
    /\ pc' = "done"
    /\ UNCHANGED <<iter, next_iter, poll_again>>

NextStateNext == CallNextState

NextStateSpec == NextStateInit /\ [][NextStateNext]_vars

(***************************************************************************)
(* The events list serialised and deserialised on its own, for queues of   *)
(* up to MaxQueue events in any progress                                   *)
(***************************************************************************)
\* the events a queue is made of
QueuedEvents ==
    {[name |-> name, env |-> env, session |-> session,
      progress |-> shape.progress, failed |-> shape.failed,
      blockers |-> shape.blockers, blocking |-> <<>>, fd |-> fd] :
        name \in ExtNames, env \in {<<>>, <<<<"FOO", "BAR">>>>},
        session \in Sessions, fd \in {-1, 3},
        shape \in {[progress |-> "EVENT_PENDING", failed |-> FALSE,
                    blockers |-> 0]}
                  \cup {[progress |-> "EVENT_HANDLING", failed |-> FALSE,
                         blockers |-> 1]}
                  \cup {[progress |-> "EVENT_FINISHED", failed |-> failed,
                         blockers |-> 0] : failed \in BOOLEAN}}

\* the queues of up to n events
RECURSIVE Queues(_)
Queues(n) ==
    IF n = 0 THEN {<<>>}
    ELSE Queues(n - 1) \cup
         {Append(queue, event) :
             queue \in Queues(n - 1), event \in QueuedEvents}

EventsInit ==
    /\ classes = [a |-> Class({<<"foo">>}, {<<"bar">>}, {"PROCESS_MAIN"},
                              FALSE, FALSE, FALSE)]
    /\ jobs = <<>>
    /\ events \in Queues(MaxQueue)
    /\ aborted = FALSE
    /\ pc = "call"
    /\ iter = NULL
    /\ next_iter = NULL
    /\ poll_again = FALSE
    /\ ret = NULL

\* the events list is serialised, and deserialised into the empty events
\* list of the new process; ret takes the list there was
CallEventsRoundTrip ==
    /\ pc = "call"
    /\ StoreGraph(event_deserialise_all(EmptyWorld(classes),
                                        event_serialise_all(events)))
    /\ ret' = [events |-> events]
    /\ pc' = "done"
    /\ UNCHANGED <<iter, next_iter, poll_again>>

EventsNext_RoundTrip == CallEventsRoundTrip

EventsSpec == EventsInit /\ [][EventsNext_RoundTrip]_vars

(***************************************************************************)
(* Runs in which the program re-executes itself: the state is written by   *)
(* the old process and read by the new one                                 *)
(***************************************************************************)
job_goal_name(goal) ==
    CASE goal = "JOB_STOP" -> "stop"
      [] goal = "JOB_START" -> "start"
      [] goal = "JOB_RESPAWN" -> "respawn"
      [] OTHER -> ""

\* "-1" stands for (JobGoal)-1, the answer for a name that is unknown
job_goal_from_name(goal) ==
    CASE goal = "stop" -> "JOB_STOP"
      [] goal = "start" -> "JOB_START"
      [] goal = "respawn" -> "JOB_RESPAWN"
      [] OTHER -> "-1"

job_state_name(state) ==
    CASE state = "JOB_WAITING" -> "waiting"
      [] state = "JOB_STARTING" -> "starting"
      [] state = "JOB_PRE_START" -> "pre-start"
      [] state = "JOB_SPAWNED" -> "spawned"
      [] state = "JOB_POST_START" -> "post-start"
      [] state = "JOB_RUNNING" -> "running"
      [] state = "JOB_PRE_STOP" -> "pre-stop"
      [] state = "JOB_STOPPING" -> "stopping"
      [] state = "JOB_KILLED" -> "killed"
      [] state = "JOB_POST_STOP" -> "post-stop"
      [] OTHER -> ""

\* "-1" stands for (JobState)-1, the answer for a name that is unknown
job_state_from_name(state) ==
    CASE state = "waiting" -> "JOB_WAITING"
      [] state = "starting" -> "JOB_STARTING"
      [] state = "pre-start" -> "JOB_PRE_START"
      [] state = "spawned" -> "JOB_SPAWNED"
      [] state = "post-start" -> "JOB_POST_START"
      [] state = "running" -> "JOB_RUNNING"
      [] state = "pre-stop" -> "JOB_PRE_STOP"
      [] state = "stopping" -> "JOB_STOPPING"
      [] state = "killed" -> "JOB_KILLED"
      [] state = "post-stop" -> "JOB_POST_STOP"
      [] OTHER -> "-1"

\* the JSON object of a job: the goal and the state by name, the events
\* of the blocker and of the blocking list by their index in the events
\* list
job_serialise(job) ==
    [goal |-> job_goal_name(job.goal), state |-> job_state_name(job.state),
     env |-> job.env, start_env |-> job.start_env,
     stop_env |-> job.stop_env, pid |-> job.pid, blocker |-> job.blocker,
     blocking |-> job.blocking, failed |-> job.failed,
     failed_process |-> job.failed_process,
     exit_status |-> job.exit_status]

\* a job_deserialise that leaves the pid table of the new job empty
job_deserialise_NoPids(json) ==
    [goal |-> job_goal_from_name(json.goal),
     state |-> job_state_from_name(json.state),
     env |-> json.env, start_env |-> json.start_env,
     stop_env |-> json.stop_env, pid |-> NoPids, blocker |-> json.blocker,
     blocking |-> json.blocking, failed |-> json.failed,
     failed_process |-> json.failed_process,
     exit_status |-> json.exit_status]

\* the job read from a JSON object
job_deserialise(json) ==
    [goal |-> job_goal_from_name(json.goal),
     state |-> job_state_from_name(json.state),
     env |-> json.env, start_env |-> json.start_env,
     stop_env |-> json.stop_env, pid |-> json.pid, blocker |-> json.blocker,
     blocking |-> json.blocking, failed |-> json.failed,
     failed_process |-> json.failed_process,
     exit_status |-> json.exit_status]

\* the JSON objects of the instances, by the class that has them
job_class_serialise_all(W) ==
    [c \in DOMAIN W.jobs |-> job_serialise(W.jobs[c])]

\* the instances join their classes
job_class_deserialise_all(W, jclasses) ==
    IF Dead(W) THEN W
    ELSE [W EXCEPT !.jobs =
                     [c \in DOMAIN jclasses |-> job_deserialise(jclasses[c])]]

\* the Blocked{EVENT} records of event e in the blocking lists of the jobs
BlockedBy(W, e) ==
    {<<c, i>> \in (DOMAIN W.jobs) \X (1..MaxEvents + 1) :
        /\ i \in DOMAIN W.jobs[c].blocking
        /\ W.jobs[c].blocking[i].type = "BLOCKED_EVENT"
        /\ W.jobs[c].blocking[i].event = e}

\* the blockers of the events are registered again: one event_block for
\* each Blocked{EVENT} record
ReBlock(W) ==
    IF Dead(W) THEN W
    ELSE [W EXCEPT !.events =
                     [e \in DOMAIN @ |->
                        [@[e] EXCEPT !.blockers =
                                       @ + Cardinality(BlockedBy(W, e))]]]

\* the state written to the state fd
state_to_string(W) ==
    [events |-> event_serialise_all(W.events),
     job_classes |-> job_class_serialise_all(W)]

\* the state read by the new process, whose classes come from its
\* configuration
state_from_string(cs, json) ==
    ReBlock(job_class_deserialise_all(
                event_deserialise_all(EmptyWorld(cs), json.events),
                json.job_classes))

\* the log entry of a re-exec
ReExeced == [op |-> "reexec"]

\* the TERM signal is handled: the new process starts in its main loop
\* with the state the old one has written
ReExec ==
    /\ InMain
    /\ StoreGraph(state_from_string(classes, state_to_string(World)))
    /\ ret' = [ret EXCEPT !.log = <<ReExeced>>, !.tick = 1 - @]
    /\ UNCHANGED <<pc, iter, next_iter, poll_again>>

ReExecNext ==
    \/ \E name \in ExtNames : EmitMethod(name, FALSE)
    \/ \E c \in DOMAIN classes, wait \in BOOLEAN : JobStart(c, NULL, wait)
    \/ \E c \in DOMAIN classes : JobStop(c, NULL, FALSE)
    \/ \E c \in DOMAIN classes, process \in ProcessType,
          status \in ExitStatuses :
         ChildExit(c, process, status, FALSE)
    \/ EventPoll
    \/ EventPending
    \/ EventHandling
    \/ EventFinished
    \/ PollAgain
    \/ PollReturn
    \/ ReExec

ReExecSpec == StepInit /\ [][ReExecNext]_vars

(***************************************************************************)
(* main.c: the program from its start, over the re-execs it makes.  ret    *)
(* holds args_copy, the restart flag of the running process, the state     *)
(* that waits in the pipe and the messages of the last start.              *)
(***************************************************************************)
\* the longest command line
MaxArgs == 7

\* the descriptor of the read end of the pipe, as the option value
STATE_FD == "5"

STARTUP_EVENT == <<"startup">>

\* nothing is to be read from the state fd
NoState == [events |-> <<>>, job_classes |-> <<>>, written |-> FALSE]

\* the state that the child has written to the pipe
Written(json) ==
    [events |-> json.events, job_classes |-> json.job_classes,
     written |-> TRUE]

\* the option is on the command line, after the program name
HasOption(args, option) == \E i \in 2..Len(args) : args[i] = option

\* the places of the --state-fd options
StateFdPlaces(args) == {i \in 2..Len(args) - 1 : args[i] = "--state-fd"}

\* state_fd after the options are parsed: the last value given
ParsedStateFd(args) ==
    IF StateFdPlaces(args) = {} THEN "-1"
    ELSE args[(CHOOSE i \in StateFdPlaces(args) :
                  \A j \in StateFdPlaces(args) : j <= i) + 1]

\* the loop of main over args_copy: the first --state-fd and its value
\* are removed, and the remaining arguments move up
RemoveStateFd(args) ==
    IF StateFdPlaces(args) = {} THEN args
    ELSE LET i == CHOOSE i \in StateFdPlaces(args) :
                      \A j \in StateFdPlaces(args) : i <= j
         IN  SubSeq(args, 1, i - 1) \o SubSeq(args, i + 2, Len(args))

\* the command line perform_reexec gives execv, at the default log level
perform_reexec(args, restart) ==
    IF restart THEN args ELSE Append(args, "--restart")

\* the command line stateful_reexec gives execv: with the state fd unless
\* pipe or fork has failed
stateful_reexec(args, restart, piped) ==
    perform_reexec(IF piped THEN args \o <<"--state-fd", STATE_FD>>
                   ELSE args,
                   restart)

Message(priority, message) == [op |-> priority, message |-> message]

ReadFailed ==
    Message("error",
            "Failed to read serialisation data - reverting to stateless re-exec")

BothFailed == Message("error", "Both stateful and stateless re-execs failed")

Stateless ==
    Message("warn",
            "Stateful re-exec supported but stateless re-exec requested")

Completed == Message("info", "Stateful re-exec completed")

BootInit ==
    /\ classes \in LogConfigs
    /\ jobs = <<>>
    /\ events = <<>>
    /\ aborted = FALSE
    /\ pc = "boot"
    /\ iter = NULL
    /\ next_iter = NULL
    /\ poll_again = FALSE
    /\ ret = [kind |-> "boot", args |-> <<"init">>, restart |-> FALSE,
              pipe |-> NoState, log |-> <<>>]

\* the program is at the start of main
AtBoot == pc = "boot" /\ ~aborted

\* main, started by the kernel: the startup event is emitted
FreshBoot ==
    /\ AtBoot
    /\ ~HasOption(ret.args, "--restart")
    /\ StoreGraph(event_new(EmptyWorld(classes), STARTUP_EVENT, <<>>))
    /\ ret' = [ret EXCEPT !.restart = FALSE, !.log = <<>>]
    /\ pc' = "main"
    /\ UNCHANGED <<iter, next_iter, poll_again>>

\* a re-executed main that emits the startup event
StatelessBoot_Startup ==
    /\ AtBoot
    /\ HasOption(ret.args, "--restart")
    /\ ParsedStateFd(ret.args) = "-1"
    /\ StoreGraph(event_new(EmptyWorld(classes), STARTUP_EVENT, <<>>))
    /\ ret' = [ret EXCEPT !.restart = TRUE, !.log = <<Stateless>>]
    /\ pc' = "main"
    /\ UNCHANGED <<iter, next_iter, poll_again>>

\* main, re-executed without a state fd
StatelessBoot ==
    /\ AtBoot
    /\ HasOption(ret.args, "--restart")
    /\ ParsedStateFd(ret.args) = "-1"
    /\ StoreGraph(EmptyWorld(classes))
    /\ ret' = [ret EXCEPT !.restart = TRUE, !.log = <<Stateless>>]
    /\ pc' = "main"
    /\ UNCHANGED <<iter, next_iter, poll_again>>

\* main, re-executed with a state fd from which the state is read
StatefulBoot ==
    /\ AtBoot
    /\ HasOption(ret.args, "--restart")
    /\ ParsedStateFd(ret.args) # "-1"
    /\ ret.pipe.written
    /\ StoreGraph(state_from_string(classes, ret.pipe))
    /\ ret' = [ret EXCEPT !.restart = TRUE, !.pipe = NoState,
                          !.log = <<Completed>>]
    /\ pc' = "main"
    /\ UNCHANGED <<iter, next_iter, poll_again>>

\* main, re-executed with a state fd from which nothing can be read:
\* the program re-executes itself once more, or asserts if execv fails
FailedBoot(executed) ==
    /\ AtBoot
    /\ HasOption(ret.args, "--restart")
    /\ ParsedStateFd(ret.args) # "-1"
    /\ StoreGraph([EmptyWorld(classes) EXCEPT !.aborted = ~executed])
    /\ ret' = [ret EXCEPT
                 !.restart = TRUE,
                 !.pipe = NoState,
                 !.args = perform_reexec(RemoveStateFd(@), TRUE),
                 !.log = IF executed THEN <<ReadFailed>>
                         ELSE <<ReadFailed, BothFailed>>]
    /\ pc' = "boot"
    /\ UNCHANGED <<iter, next_iter, poll_again>>

\* term_handler: the program re-executes itself; if execv fails it is
\* back in its main loop, with the command line it has made
TermHandler(piped, executed) ==
    /\ InMain
    /\ Len(stateful_reexec(ret.args, ret.restart, piped)) <= MaxArgs
    /\ IF executed
       THEN /\ StoreGraph(EmptyWorld(classes))
            /\ pc' = "boot"
            /\ ret' = [ret EXCEPT
                         !.args = stateful_reexec(@, ret.restart, piped),
                         !.pipe = IF piped
                                  THEN Written(state_to_string(World))
                                  ELSE NoState,
                         !.log = <<>>]
       ELSE /\ ret' = [ret EXCEPT
                         !.args = stateful_reexec(@, ret.restart, piped)]
            /\ UNCHANGED <<classes, jobs, events, aborted, pc>>
    /\ UNCHANGED <<iter, next_iter, poll_again>>

BootNext ==
    \/ FreshBoot
    \/ StatelessBoot
    \/ StatefulBoot
    \/ \E executed \in BOOLEAN : FailedBoot(executed)
    \/ \E piped \in BOOLEAN, executed \in BOOLEAN :
         TermHandler(piped, executed)
    \/ \E name \in ExtNames : EmitMethod(name, FALSE)
    \/ \E c \in DOMAIN classes, process \in ProcessType,
          status \in ExitStatuses :
         ChildExit(c, process, status, FALSE)
    \/ EventPoll
    \/ EventPending
    \/ EventHandling
    \/ EventFinished
    \/ PollAgain
    \/ PollReturn

BootSpec == BootInit /\ [][BootNext]_vars

(***************************************************************************)
(* job_new called on its own, for a class of any configuration, whatever   *)
(* events are queued                                                       *)
(***************************************************************************)
JobNewInit ==
    /\ classes \in Configs
    /\ jobs = <<>>
    /\ events \in Queues(MaxQueue - 1)
    /\ aborted = FALSE
    /\ pc = "call"
    /\ iter = NULL
    /\ next_iter = NULL
    /\ poll_again = FALSE
    /\ ret = NULL

CallJobNew(c) ==
    /\ pc = "call"
    /\ StoreGraph(job_new(World, c))
    /\ ret' = [class |-> c]
    /\ pc' = "done"
    /\ UNCHANGED <<iter, next_iter, poll_again>>

JobNewNext == \E c \in DOMAIN classes : CallJobNew(c)

JobNewSpec == JobNewInit /\ [][JobNewNext]_vars

(***************************************************************************)
(* Runs in which the Restart method is called, for a service without and   *)
(* with a pre-stop process, logged handler by handler                      *)
(***************************************************************************)
RestartConfigs ==
    { [a |-> Class({<<"foo">>}, {<<"bar">>}, {"PROCESS_MAIN"},
                   FALSE, FALSE, FALSE)],
      [a |-> Class({<<"foo">>}, {<<"bar">>},
                   {"PROCESS_MAIN", "PROCESS_PRE_STOP"},
                   FALSE, FALSE, FALSE)] }

RestartInit ==
    /\ classes \in RestartConfigs
    /\ jobs = <<>>
    /\ events = <<>>
    /\ aborted = FALSE
    /\ pc = "main"
    /\ iter = NULL
    /\ next_iter = NULL
    /\ poll_again = FALSE
    /\ ret = [kind |-> "step", log |-> <<>>, tick |-> 0]

RestartNext ==
    \/ \E name \in ExtNames : EmitMethod(name, FALSE)
    \/ \E c \in DOMAIN classes, wait \in BOOLEAN :
         JobRestart(c, NULL, wait)
    \/ \E c \in DOMAIN classes, process \in ProcessType,
          status \in ExitStatuses :
         ChildExit(c, process, status, FALSE)
    \/ EventPoll
    \/ EventPending
    \/ EventHandling
    \/ EventFinished
    \/ PollAgain
    \/ PollReturn

RestartSpec == RestartInit /\ [][RestartNext]_vars

(***************************************************************************)
(* job_change_goal called on its own, for a job in any state, of a class   *)
(* with or without a main and a pre-stop process, whose spawns may fail    *)
(***************************************************************************)
ChangeGoalClasses ==
    {[a |-> Class({<<"foo">>}, {<<"bar">>}, process, task, FALSE, FALSE)] :
        process \in {{}, {"PROCESS_MAIN"},
                     {"PROCESS_MAIN", "PROCESS_PRE_STOP"}},
        task \in BOOLEAN}

\* the goals a job may have in a state
GoalsIn(state) ==
    CASE state = "JOB_WAITING" -> {"JOB_STOP"}
      [] state = "JOB_RUNNING" -> {"JOB_START"}
      [] state \in {"JOB_POST_START", "JOB_PRE_STOP"} -> JobGoal
      [] OTHER -> {"JOB_STOP", "JOB_START"}

ChangeGoalInit ==
    /\ classes \in ChangeGoalClasses
    /\ \E state \in JobState, pid \in {0, PidOf("a", "PROCESS_MAIN")} :
         \E goal \in GoalsIn(state) :
            /\ pid > 0 => "PROCESS_MAIN" \in classes["a"].process
            /\ jobs = [job_new(EmptyWorld(classes), "a").jobs EXCEPT
                         !["a"].state = state,
                         !["a"].goal = goal,
                         !["a"].pid["PROCESS_MAIN"] = pid]
    /\ events = <<>>
    /\ aborted = FALSE
    /\ pc = "call"
    /\ iter = NULL
    /\ next_iter = NULL
    /\ poll_again = FALSE
    /\ ret = NULL

\* the call: ret takes the job as it was and the goal given
CallChangeGoal(goal) ==
    /\ pc = "call"
    /\ \E answers \in AnswersOf({"a"}) :
         StoreGraph(job_change_goal(WorldWith(answers), "a", goal))
    /\ ret' = [job |-> jobs["a"], goal |-> goal]
    /\ pc' = "done"
    /\ UNCHANGED <<iter, next_iter, poll_again>>

ChangeGoalNext == \E goal \in JobGoal : CallChangeGoal(goal)

ChangeGoalSpec == ChangeGoalInit /\ [][ChangeGoalNext]_vars

(***************************************************************************)
(* job_emit_event called on its own, for a job in each of the states that  *)
(* emit an event, unfailed or with each record of a failure                *)
(***************************************************************************)
\* the exit statuses recorded for a failed process: -1 when it could not
\* be spawned, an exit code, or a signal in the higher byte
RecordedStatuses == {-1, 1, 255, 9 * 256, 11 * 256, 15 * 256, 64 * 256}

\* the records of a failure: of a process, or of respawning too fast
FailureRecords ==
    {[failed |-> TRUE, failed_process |-> process, exit_status |-> status] :
        process \in ProcessType, status \in RecordedStatuses}
    \cup {[failed |-> TRUE, failed_process |-> PROCESS_NONE,
            exit_status |-> -1]}

NoFailure ==
    [failed |-> FALSE, failed_process |-> PROCESS_NONE, exit_status |-> 0]

EmitEventInit ==
    /\ classes = [a |-> Class({<<"foo">>}, {<<"bar">>}, ProcessType,
                              FALSE, TRUE, FALSE)]
    /\ \E state \in {"JOB_STARTING", "JOB_RUNNING", "JOB_STOPPING",
                      "JOB_WAITING"},
          record \in {NoFailure} \cup FailureRecords :
         /\ state = "JOB_STARTING" => ~record.failed
         /\ jobs = [job_new(EmptyWorld(classes), "a").jobs EXCEPT
                      !["a"].state = state,
                      !["a"].goal = IF state \in {"JOB_STARTING",
                                                  "JOB_RUNNING"}
                                    THEN "JOB_START" ELSE "JOB_STOP",
                      !["a"].failed = record.failed,
                      !["a"].failed_process = record.failed_process,
                      !["a"].exit_status = record.exit_status]
    /\ events = <<>>
    /\ aborted = FALSE
    /\ pc = "call"
    /\ iter = NULL
    /\ next_iter = NULL
    /\ poll_again = FALSE
    /\ ret = NULL

\* the call: ret takes the job and the event returned
CallEmitEvent ==
    /\ pc = "call"
    /\ StoreGraph(job_emit_event(World, "a"))
    /\ ret' = [job |-> jobs["a"],
               event |-> job_emit_event(World, "a").events[1]]
    /\ pc' = "done"
    /\ UNCHANGED <<iter, next_iter, poll_again>>

EmitEventNext == CallEmitEvent

EmitEventSpec == EmitEventInit /\ [][EmitEventNext]_vars

(***************************************************************************)
(* job_finished called on its own, for a job whose blocking list holds up  *)
(* to MaxBlocking entries: records of two queued events and of callers     *)
(* that wait for a method                                                  *)
(***************************************************************************)
\* the entries a blocking list is made of
BlockedEntries ==
    {blocked_new_event(e) : e \in 1..2} \cup
    {blocked_new_message(type, 1) :
        type \in {"BLOCKED_INSTANCE_START_METHOD",
                  "BLOCKED_INSTANCE_STOP_METHOD",
                  "BLOCKED_JOB_RESTART_METHOD"}}

\* the lists of up to n entries
RECURSIVE BlockingLists(_)
BlockingLists(n) ==
    IF n = 0 THEN {<<>>}
    ELSE BlockingLists(n - 1) \cup
         {Append(s, b) : s \in BlockingLists(n - 1), b \in BlockedEntries}

\* the number of records of event e in a blocking list
RecordsOf(blocking, e) ==
    Cardinality({i \in DOMAIN blocking :
                    /\ blocking[i].type = "BLOCKED_EVENT"
                    /\ blocking[i].event = e})

\* a queued event that waits for the job with the records it has in the
\* blocking list
HeldEvent(name, failed, blockers) ==
    [name |-> name, env |-> <<>>, session |-> NULL,
     progress |-> "EVENT_HANDLING", failed |-> failed,
     blockers |-> blockers, blocking |-> <<>>, fd |-> -1]

JobFinishedInit ==
    /\ classes = [a |-> Class({<<"foo">>}, {<<"bar">>}, {"PROCESS_MAIN"},
                              FALSE, FALSE, FALSE)]
    /\ \E blocking \in BlockingLists(MaxBlocking),
          state \in {"JOB_SPAWNED", "JOB_RUNNING", "JOB_STOPPING"} :
         /\ jobs = [job_new(EmptyWorld(classes), "a").jobs EXCEPT
                      !["a"].state = state,
                      !["a"].goal = IF state = "JOB_STOPPING"
                                    THEN "JOB_STOP" ELSE "JOB_START",
                      !["a"].blocking = blocking]
         /\ \E f1, f2 \in BOOLEAN :
               events = <<HeldEvent(<<"foo">>, f1, RecordsOf(blocking, 1)),
                          HeldEvent(<<"bar">>, f2, RecordsOf(blocking, 2))>>
    /\ aborted = FALSE
    /\ pc = "call"
    /\ iter = NULL
    /\ next_iter = NULL
    /\ poll_again = FALSE
    /\ ret = NULL

\* the call: ret takes the argument, the blocking list and the events
\* there were, and the replies sent
CallJobFinished(failed) ==
    /\ pc = "call"
    /\ StoreGraph(job_finished(World, "a", failed))
    /\ ret' = [failed |-> failed,
               blocking |-> jobs["a"].blocking,
               events |-> events,
               trace |-> job_finished(World, "a", failed).trace]
    /\ pc' = "done"
    /\ UNCHANGED <<iter, next_iter, poll_again>>

JobFinishedNext == \E failed \in BOOLEAN : CallJobFinished(failed)

JobFinishedSpec == JobFinishedInit /\ [][JobFinishedNext]_vars

(***************************************************************************)
(* The runs of a service with a process of every type, logged handler by   *)
(* handler: each spawn of job_change_state may fail.                       *)
(***************************************************************************)
SpawnConfigs ==
    { [a |-> Class({<<"foo">>}, {<<"bar">>}, ProcessType,
                   FALSE, FALSE, FALSE)] }

SpawnInit ==
    /\ classes \in SpawnConfigs
    /\ jobs = <<>>
    /\ events = <<>>
    /\ aborted = FALSE
    /\ pc = "main"
    /\ iter = NULL
    /\ next_iter = NULL
    /\ poll_again = FALSE
    /\ ret = [kind |-> "step", log |-> <<>>, tick |-> 0]

SpawnNext ==
    \/ \E name \in ExtNames : EmitMethod(name, FALSE)
    \/ \E c \in DOMAIN classes, process \in ProcessType,
          status \in ExitStatuses :
         ChildExit(c, process, status, FALSE)
    \/ EventPoll
    \/ EventPending
    \/ EventHandling
    \/ EventFinished
    \/ PollAgain
    \/ PollReturn

SpawnSpec == SpawnInit /\ [][SpawnNext]_vars

(***************************************************************************)
(* Properties                                                              *)
(***************************************************************************)
Places == 1..Len(events)

\* the Blocked records of event e held in the blocking lists of the jobs
EventRecords(e) ==
    {<<c, i>> \in (DOMAIN jobs) \X (1..MaxEvents + 1) :
        /\ i \in DOMAIN jobs[c].blocking
        /\ jobs[c].blocking[i].type = "BLOCKED_EVENT"
        /\ jobs[c].blocking[i].event = e}

\* C1: for every queued event, blockers equals the number of
\* Blocked{EVENT} records of that event in the blocking lists of all jobs
C1_BlockersCountRecords ==
    ~aborted =>
        \A e \in Places : events[e].blockers = Cardinality(EventRecords(e))

\* an event is held by the record of a job that an RPC caller waits for too
C1_Witness ==
    \E e \in Places, c \in DOMAIN jobs :
        /\ events[e].blockers = 1
        /\ EventRecords(e) # {}
        /\ Len(jobs[c].blocking) = 1
        /\ jobs[c].state = "JOB_SPAWNED"

\* event_poll is about to run event_finished on the event at iter
AtFinished ==
    /\ ~aborted
    /\ iter # NULL
    /\ \/ pc = "finished"
       \/ pc = "foreach" /\ events[iter].progress = "EVENT_FINISHED"

\* C2: event_finished, which frees the event, only runs for an event whose
\* blockers is 0, and no event is FINISHED with blockers above 0
C2_FinishedHasNoBlockers ==
    /\ AtFinished => events[iter].blockers = 0
    /\ ~aborted =>
         \A e \in Places :
            events[e].progress = "EVENT_FINISHED" => events[e].blockers = 0

\* event_finished is about to free an event that a failed job had blocked
C2_Witness ==
    /\ AtFinished
    /\ events[iter].failed
    /\ events[iter].name = <<"foo">>

\* the test of while (poll_again) fails: event_poll returns
AtReturn == pc = "foreach" /\ iter = NULL /\ ~poll_again /\ ~aborted

\* C3: when event_poll returns, every event left in the queue is HANDLING
\* with blockers above 0
C3_ReturnsQuiescent ==
    AtReturn =>
        \A e \in Places :
            /\ events[e].progress = "EVENT_HANDLING"
            /\ events[e].blockers > 0

\* event_poll returns leaving the starting event of one job, held by
\* another job that it has started
C3_Witness ==
    /\ AtReturn
    /\ \E e \in Places : events[e].name = JOB_STARTING_EVENT
    /\ \E c \in DOMAIN jobs : jobs[c].state = "JOB_RUNNING"

\* the Blocked{JOB} records of job c in the blocking list of event e
JobRecords(e, c) ==
    {i \in DOMAIN events[e].blocking :
        /\ events[e].blocking[i].type = "BLOCKED_JOB"
        /\ events[e].blocking[i].job = c}

\* C8: job.blocker is e exactly when the blocking list of e holds a
\* Blocked{JOB} record of the job; the blocker of a job in STARTING is its
\* starting event, that of a job in STOPPING its stopping event, and no
\* job in another state has one
C8_BlockerIsJobRecord ==
    ~aborted =>
        /\ \A e \in Places, c \in DOMAIN jobs :
              (jobs[c].blocker = e) <=> (JobRecords(e, c) # {})
        /\ \A e \in Places, i \in 1..MaxEvents :
              (i \in DOMAIN events[e].blocking
               /\ events[e].blocking[i].type = "BLOCKED_JOB")
              => events[e].blocking[i].job \in DOMAIN jobs
        /\ \A c \in DOMAIN jobs :
              jobs[c].blocker # NULL =>
                 /\ jobs[c].blocker \in Places
                 /\ \/ /\ jobs[c].state = "JOB_STARTING"
                       /\ events[jobs[c].blocker].name = JOB_STARTING_EVENT
                    \/ /\ jobs[c].state = "JOB_STOPPING"
                       /\ events[jobs[c].blocker].name = JOB_STOPPING_EVENT

\* a job waits in STOPPING for its stopping event while a started event
\* is in the queue
C8_Witness ==
    \E c \in DOMAIN jobs, e \in Places :
        /\ jobs[c].state = "JOB_STOPPING"
        /\ jobs[c].blocker # NULL
        /\ events[e].name = JOB_STARTED_EVENT

\* C4: once entered, event_poll returns, whatever the job classes and the
\* queue
C4_PollReturns == (pc # "main") ~> (pc = "main")

\* the order of the values of progress
Rank(progress) ==
    CASE progress = "EVENT_PENDING" -> 0
      [] progress = "EVENT_HANDLING" -> 1
      [] progress = "EVENT_FINISHED" -> 2

\* the place the event at place e has after a step: the step of
\* event_finished frees the event at iter (NULL) and moves up those behind
After(e) ==
    IF ~AtFinished THEN e
    ELSE IF e = iter THEN NULL
    ELSE Moved(iter, e)

\* C5: an event enters the queue PENDING with no blockers; its progress
\* stays or moves one step along PENDING, HANDLING, FINISHED, to HANDLING
\* only in the step that handles it against the job classes; a FINISHED
\* event is freed by the very next step, and no other event leaves
C5_ProgressMonotone ==
    [][~aborted' =>
        /\ \A e \in Places :
              IF After(e) = NULL
              THEN events[e].progress = "EVENT_FINISHED"
              ELSE /\ After(e) \in 1..Len(events')
                   /\ events'[After(e)].name = events[e].name
                   /\ events[e].progress # "EVENT_FINISHED"
                   /\ Rank(events'[After(e)].progress)
                        \in {Rank(events[e].progress),
                             Rank(events[e].progress) + 1}
                   /\ (events[e].progress = "EVENT_PENDING"
                       /\ events'[After(e)].progress = "EVENT_HANDLING")
                      => pc = "foreach" /\ iter = e /\ pc' = "handling"
        /\ \A n \in 1..Len(events') :
              n \notin {After(e) : e \in Places} =>
                 /\ events'[n].progress = "EVENT_PENDING"
                 /\ events'[n].blockers = 0
    ]_vars

\* event_finished is about to free an event while two more are queued,
\* one in each of the other values of progress
C5_Witness ==
    /\ AtFinished
    /\ events[iter].progress = "EVENT_FINISHED"
    /\ \E e \in Places : events[e].progress = "EVENT_HANDLING"
    /\ \E e \in Places : events[e].progress = "EVENT_PENDING"

\* the transition table for the goals STOP and START
Table(state, goal, main_alive) ==
    CASE state = "JOB_WAITING" /\ goal = "JOB_START" -> "JOB_STARTING"
      [] state = "JOB_STARTING" ->
           IF goal = "JOB_STOP" THEN "JOB_STOPPING" ELSE "JOB_PRE_START"
      [] state = "JOB_PRE_START" ->
           IF goal = "JOB_STOP" THEN "JOB_STOPPING" ELSE "JOB_SPAWNED"
      [] state = "JOB_SPAWNED" ->
           IF goal = "JOB_STOP" THEN "JOB_STOPPING" ELSE "JOB_POST_START"
      [] state = "JOB_POST_START" ->
           IF goal = "JOB_STOP" THEN "JOB_STOPPING" ELSE "JOB_RUNNING"
      [] state = "JOB_RUNNING" ->
           IF goal = "JOB_STOP" /\ main_alive THEN "JOB_PRE_STOP"
           ELSE "JOB_STOPPING"
      [] state = "JOB_PRE_STOP" ->
           IF goal = "JOB_STOP" THEN "JOB_STOPPING" ELSE "JOB_RUNNING"
      [] state = "JOB_STOPPING" -> "JOB_KILLED"
      [] state = "JOB_KILLED" -> "JOB_POST_STOP"
      [] state = "JOB_POST_STOP" ->
           IF goal = "JOB_STOP" THEN "JOB_WAITING" ELSE "JOB_STARTING"
      [] OTHER -> "none"

\* job_next_state has been called on its own
Called == pc = "done"

\* C6: for the goals STOP and START, (WAITING, STOP) apart, job_next_state
\* returns the successor the transition table gives, and leaves the job
\* as it was
C6_NextStateIsTable ==
    (Called /\ ret.goal \in {"JOB_STOP", "JOB_START"}
     /\ <<ret.state, ret.goal>> # <<"JOB_WAITING", "JOB_STOP">>)
    => /\ ret.next = Table(ret.state, ret.goal,
                           "PROCESS_MAIN" \in classes["a"].process
                           /\ jobs["a"].pid["PROCESS_MAIN"] > 0)
       /\ jobs["a"].state = ret.state
       /\ jobs["a"].goal = ret.goal

\* a running job without a live main process is to stop: STOPPING
C6_Witness ==
    /\ Called
    /\ ret.state = "JOB_RUNNING"
    /\ ret.goal = "JOB_STOP"
    /\ "PROCESS_MAIN" \in classes["a"].process
    /\ jobs["a"].pid["PROCESS_MAIN"] = 0
    /\ ret.next = "JOB_STOPPING"

\* C7 as stated: job_next_state returns a state that job_change_state
\* accepts for every state and each of the three goals, (WAITING, STOP)
\* apart
C7_AllGoalsLegal ==
    (Called /\ <<ret.state, ret.goal>> # <<"JOB_WAITING", "JOB_STOP">>)
    => /\ ret.next \in JobState
       /\ EntryAsserts(ret.next, jobs["a"].goal, ret.state)

\* the states and goals job_next_state has a successor for
HasSuccessor(state, goal) ==
    \/ goal \in {"JOB_STOP", "JOB_START"}
       /\ <<state, goal>> # <<"JOB_WAITING", "JOB_STOP">>
    \/ goal = "JOB_RESPAWN" /\ state \in {"JOB_POST_START", "JOB_PRE_STOP"}

\* C7: job_next_state returns a state that job_change_state accepts for
\* every state under the goals STOP and START, (WAITING, STOP) apart, and
\* under the goal RESPAWN in POST_START and PRE_STOP only, where it sets
\* the goal to START and returns STOPPING; for every other state and goal
\* it fails an assertion
C7_LegalSuccessor ==
    Called =>
        IF HasSuccessor(ret.state, ret.goal)
        THEN /\ ~aborted
             /\ ret.next \in JobState
             /\ EntryAsserts(ret.next, jobs["a"].goal, ret.state)
             /\ ret.goal = "JOB_RESPAWN" =>
                   ret.next = "JOB_STOPPING" /\ jobs["a"].goal = "JOB_START"
        ELSE aborted /\ ret.next = "ASSERT"

\* the RESPAWN goal of a job in POST_START has become START, on the way
\* to STOPPING
C7_Witness ==
    /\ Called
    /\ ret.state = "JOB_POST_START"
    /\ ret.goal = "JOB_RESPAWN"
    /\ ret.next = "JOB_STOPPING"
    /\ jobs["a"].goal = "JOB_START"

\* C9: a step leaves alone the state and the blocker of every job that
\* has a blocker, unless the step is event_finished of that blocker
C9_BlockedJobStays ==
    [][~aborted' =>
        \A c \in DOMAIN jobs :
           (jobs[c].blocker # NULL /\ ~(AtFinished /\ iter = jobs[c].blocker))
           => /\ c \in DOMAIN jobs'
              /\ jobs'[c].state = jobs[c].state
              /\ jobs'[c].blocker = After(jobs[c].blocker)
    ]_vars

\* the goal of a job has been changed to START while it waits in STOPPING
\* for its stopping event, and it is still there
C9_Witness ==
    \E c \in DOMAIN jobs :
        /\ jobs[c].blocker # NULL
        /\ jobs[c].state = "JOB_STOPPING"
        /\ jobs[c].goal = "JOB_START"

\* event_finished is about to wake job c from its blocker
Waking(c) == AtFinished /\ jobs[c].blocker = iter

\* C10: when the starting event of a job whose goal has become STOP
\* finishes, the job goes to STOPPING with no process run and waits for
\* its stopping event; when that finishes, the job, having no main process
\* to kill, goes on to WAITING, where it is freed, or waits in POST_STOP
\* for the post-stop process; while its goal is STOP a job in STOPPING,
\* KILLED or POST_STOP enters no other state
C10_StoppedWhileStarting ==
    [][\A c \in DOMAIN jobs :
        /\ (Waking(c) /\ jobs[c].state = "JOB_STARTING"
            /\ jobs[c].goal = "JOB_STOP")
           => /\ ~aborted'
              /\ c \in DOMAIN jobs'
              /\ jobs'[c].state = "JOB_STOPPING"
              /\ jobs'[c].goal = "JOB_STOP"
              /\ jobs'[c].pid = NoPids
              /\ jobs'[c].blocker \in 1..Len(events')
              /\ events'[jobs'[c].blocker].name = JOB_STOPPING_EVENT
        /\ (Waking(c) /\ jobs[c].state = "JOB_STOPPING"
            /\ jobs[c].goal = "JOB_STOP" /\ jobs[c].pid = NoPids)
           => /\ ~aborted'
              /\ \/ c \notin DOMAIN jobs'
                 \/ /\ jobs'[c].state = "JOB_POST_STOP"
                    /\ jobs'[c].pid["PROCESS_POST_STOP"] > 0
        /\ (jobs[c].goal = "JOB_STOP" /\ c \in DOMAIN jobs'
            /\ jobs'[c].goal = "JOB_STOP"
            /\ jobs[c].state \in {"JOB_STOPPING", "JOB_KILLED",
                                  "JOB_POST_STOP"})
           => jobs'[c].state \in
                 CASE jobs[c].state = "JOB_STOPPING" ->
                        {"JOB_STOPPING", "JOB_KILLED", "JOB_POST_STOP"}
                   [] jobs[c].state = "JOB_KILLED" ->
                        {"JOB_KILLED", "JOB_POST_STOP"}
                   [] OTHER -> {"JOB_POST_STOP"}
    ]_vars

\* the starting event of a job whose goal has become STOP is about to
\* finish
C10_Witness ==
    \E c \in DOMAIN jobs :
        /\ Waking(c)
        /\ jobs[c].state = "JOB_STARTING"
        /\ jobs[c].goal = "JOB_STOP"

\* the EVENT records of event e in the blocking list of job c
HeldBy(c, e) ==
    {i \in DOMAIN jobs[c].blocking :
        /\ jobs[c].blocking[i].type = "BLOCKED_EVENT"
        /\ jobs[c].blocking[i].event = e}

\* the pre-stop process of job c ends in this step, the goal of the job
\* having been changed back to START
PreStopEndsForStart(c) ==
    /\ c \in DOMAIN jobs
    /\ jobs[c].state = "JOB_PRE_STOP"
    /\ jobs[c].goal = "JOB_START"
    /\ jobs[c].pid["PROCESS_PRE_STOP"] > 0
    /\ c \in DOMAIN jobs' => jobs'[c].pid["PROCESS_PRE_STOP"] = 0

\* C11: when the pre-stop process of a job in PRE_STOP ends after the goal
\* has been changed back to START, the job is RUNNING again with goal
\* START, no event is emitted (no stopping, no second started), stop_env
\* is dropped, and every entry of job.blocking is resolved as not failed:
\* the list is empty, each event it named is unblocked once per entry and
\* no failed flag changes
C11_PreStopBackToRunning ==
    [][\A c \in DOMAIN classes :
          PreStopEndsForStart(c) =>
              /\ c \in DOMAIN jobs'
              /\ jobs'[c].state = "JOB_RUNNING"
              /\ jobs'[c].goal = "JOB_START"
              /\ jobs'[c].stop_env = <<>>
              /\ jobs'[c].blocking = <<>>
              /\ Len(events') = Len(events)
              /\ \A e \in Places :
                    events'[e] =
                        [events[e] EXCEPT
                            !.blockers = @ - Cardinality(HeldBy(c, e))]]_vars

\* the pre-stop process of a job stopped by an event runs, and the job,
\* started again by another event that still waits for it, has goal START
C11_Witness ==
    \E c \in DOMAIN jobs, e \in Places :
        /\ jobs[c].state = "JOB_PRE_STOP"
        /\ jobs[c].goal = "JOB_START"
        /\ jobs[c].pid["PROCESS_PRE_STOP"] > 0
        /\ jobs[c].stop_env # <<>>
        /\ HeldBy(c, e) # {}
        /\ events[e].name = <<"foo">>

\* this step is the case EVENT_PENDING of an event that matches both
\* start_on and stop_on of class c, whose instance is RUNNING with goal
\* START and a live main process
BothMatchRunning(c) ==
    /\ pc = "foreach" /\ pc' = "handling"
    /\ iter # NULL
    /\ events[iter].progress = "EVENT_PENDING"
    /\ events[iter].name \in classes[c].start_on \cap classes[c].stop_on
    /\ c \in DOMAIN jobs
    /\ jobs[c].state = "JOB_RUNNING"
    /\ jobs[c].goal = "JOB_START"
    /\ jobs[c].pid["PROCESS_MAIN"] > 0

\* the states a job on its way to a restart may be in after a step that
\* finds it in state with goal START and leaves the goal alone
RestartPath(state) ==
    CASE state = "JOB_STOPPING" ->
           {"JOB_STOPPING", "JOB_KILLED", "JOB_POST_STOP", "JOB_STARTING"}
      [] state = "JOB_KILLED" ->
           {"JOB_KILLED", "JOB_POST_STOP", "JOB_STARTING"}
      [] state = "JOB_POST_STOP" -> {"JOB_POST_STOP", "JOB_STARTING"}
      [] OTHER -> JobState

\* the job of class c is in PRE_STOP with goal START, stopped and started
\* by events of one name that matches both stop_on and start_on
StoppedAndStarted(c) ==
    /\ c \in DOMAIN jobs
    /\ jobs[c].state = "JOB_PRE_STOP"
    /\ jobs[c].goal = "JOB_START"
    /\ \E name \in classes[c].start_on \cap classes[c].stop_on :
          /\ jobs[c].stop_env = <<<<"UPSTART_STOP_EVENTS", name>>>>
          /\ jobs[c].start_env = <<<<"UPSTART_JOB", c>>,
                                   <<"UPSTART_EVENTS", name>>>>

\* the instance of class c is restarted by an event that stops and starts
\* it: the event leaves it stopping (in PRE_STOP while a pre-stop process
\* runs, else in STOPPING) with goal START, and from there it goes by
\* STOPPING, KILLED and POST_STOP to STARTING, where its main process is
\* gone
RestartedBySameEvent(c) ==
    /\ BothMatchRunning(c) =>
          /\ c \in DOMAIN jobs'
          /\ jobs'[c].state \in {"JOB_PRE_STOP", "JOB_STOPPING"}
          /\ jobs'[c].goal = "JOB_START"
    /\ /\ c \in DOMAIN jobs /\ c \in DOMAIN jobs'
       /\ jobs[c].goal = "JOB_START" /\ jobs'[c].goal = "JOB_START"
       => /\ jobs'[c].state \in RestartPath(jobs[c].state)
          /\ StoppedAndStarted(c) =>
                jobs'[c].state \in {"JOB_PRE_STOP", "JOB_STOPPING"}
          /\ /\ jobs[c].state \in {"JOB_STOPPING", "JOB_KILLED",
                                   "JOB_POST_STOP"}
             /\ jobs'[c].state = "JOB_STARTING"
             => jobs'[c].pid["PROCESS_MAIN"] = 0

\* C12: an event matching both stop_on and start_on of a class whose
\* instance is RUNNING with goal START stops the instance and then starts
\* it: the instance goes by STOPPING, KILLED and POST_STOP to STARTING,
\* its main process terminated, with goal START
C12_RestartedBySameEvent ==
    [][\A c \in DOMAIN classes : RestartedBySameEvent(c)]_vars

\* this step is the case EVENT_PENDING of an event that matches both
\* start_on and stop_on of class c, which has no instance
BothMatchNoInstance(c) ==
    /\ pc = "foreach" /\ pc' = "handling"
    /\ iter # NULL
    /\ events[iter].progress = "EVENT_PENDING"
    /\ events[iter].name \in classes[c].start_on \cap classes[c].stop_on
    /\ c \notin DOMAIN jobs

StoppedUnasked(c) ==
    /\ c \in DOMAIN jobs /\ c \in DOMAIN jobs'
    /\ jobs[c].goal = "JOB_START" /\ jobs'[c].goal = "JOB_STOP"
    /\ pc # "main"
    /\ ~(/\ pc = "foreach" /\ pc' = "handling"
         /\ events[iter].name \in classes[c].stop_on)
    /\ ~jobs'[c].failed

Prefix(s, t) == Len(s) <= Len(t) /\ s = SubSeq(t, 1, Len(s))

\* the log entry of an emitted event
Emitted(name, env) == [op |-> "emit", name |-> name, env |-> env]

\* the log entry of the exit of a process of a job
Exited(c, process, status) ==
    [op |-> "exit", job |-> c, process |-> process, status |-> status]

\* a log entry that records an input: a request, an event emitted from
\* outside, a child exit, a report of the tracer, a failure of the spawner
IsInput(entry) ==
    \/ entry.op \in {"call", "exit", "traced", "spawn_failed"}
    \/ entry.op = "emit" /\ entry.name \in ExtNames

\* the log of a run of the task a in which the event foo is emitted once
\* and the main process exits normally
TaskLog ==
    << Emitted(<<"foo">>, <<>>),
       Emitted(JOB_STARTING_EVENT, <<<<"JOB", "a">>, <<"INSTANCE", "">>>>),
       Emitted(JOB_STARTED_EVENT, <<<<"JOB", "a">>, <<"INSTANCE", "">>>>),
       Exited("a", "PROCESS_MAIN", 0),
       Emitted(JOB_STOPPING_EVENT,
               <<<<"JOB", "a">>, <<"INSTANCE", "">>, <<"RESULT", "ok">>>>),
       Emitted(JOB_STOPPED_EVENT,
               <<<<"JOB", "a">>, <<"INSTANCE", "">>, <<"RESULT", "ok">>>>),
       [op |-> "remove", job |-> "a"] >>

\* the log without the replies (to the caller of EmitEvent, if it waits)
Seen == SelectSeq(ret.log, LAMBDA entry : entry.op # "reply")

\* the run is one of a task with only a main process, and its inputs so
\* far are those of TaskLog
TaskRun ==
    /\ Logged
    /\ classes["a"].task
    /\ classes["a"].process = {"PROCESS_MAIN"}
    /\ <<"foo">> \in classes["a"].start_on
    /\ Prefix(SelectSeq(ret.log, IsInput), SelectSeq(TaskLog, IsInput))

\* the run is over: the main process has exited and event_poll has
\* returned with an empty queue
TaskRunOver ==
    /\ TaskRun
    /\ Exited("a", "PROCESS_MAIN", 0) \in {ret.log[i] : i \in DOMAIN ret.log}
    /\ pc = "main"
    /\ events = <<>>

\* C14: for a task with only a main process that exits normally, emitting
\* the event of its start_on once yields exactly the events foo, starting,
\* started, stopping with RESULT=ok and stopped with RESULT=ok, each job
\* event with JOB=a and INSTANCE=, in this order, the exit coming after
\* started; afterwards the class has no instance
C14_TaskEventSequence ==
    /\ TaskRun => Prefix(Seen, TaskLog)
    /\ TaskRunOver => Seen = TaskLog /\ jobs = <<>>

\* the run of the task is over, and the caller of EmitEvent, who waited,
\* has been answered
C14_Witness ==
    /\ TaskRunOver
    /\ Len(Seen) = 7
    /\ Len(ret.log) = 8
    /\ ret.log[8] = [op |-> "reply", type |-> "BLOCKED_EMIT_METHOD",
                     message |-> 1, error |-> ""]

\* the Blocked record b as it is after this step if nothing resolves it:
\* event_finished frees the event at iter, and the events behind it move
\* up one place
Kept(b) ==
    IF AtFinished /\ b.type = "BLOCKED_EVENT"
    THEN [b EXCEPT !.event = Moved(iter, @)]
    ELSE b

\* this step leaves every entry of the blocking list of job c in its place
StillHeld(c) ==
    /\ c \in DOMAIN jobs'
    /\ Len(jobs'[c].blocking) >= Len(jobs[c].blocking)
    /\ \A i \in DOMAIN jobs[c].blocking :
          jobs'[c].blocking[i] = Kept(jobs[c].blocking[i])

\* this step takes job c, which was starting, to RUNNING
EntersRunning(c) ==
    /\ c \in DOMAIN jobs /\ c \in DOMAIN jobs'
    /\ jobs[c].state \in {"JOB_STARTING", "JOB_PRE_START", "JOB_SPAWNED",
                          "JOB_POST_START"}
    /\ jobs'[c].state = "JOB_RUNNING"

\* this step takes job c to WAITING, where it is freed, or marks it failed
EndsOrFails(c) ==
    \/ c \notin DOMAIN jobs'
    \/ ~jobs[c].failed /\ jobs'[c].failed

\* C15 as stated: the entries of job.blocking are resolved when a job that
\* is not a task enters RUNNING; those of a task stay through RUNNING and
\* are resolved only when the job reaches WAITING or fails
C15_TaskHeldToTheEnd ==
    [][\A c \in DOMAIN jobs :
          /\ (~classes[c].task /\ EntersRunning(c)) =>
                jobs'[c].blocking = <<>>
          /\ (classes[c].task /\ ~EndsOrFails(c)) => StillHeld(c)]_vars


\* the entries this step adds to the log of a logged run
NewLog ==
    CASE Logged -> SubSeq(ret'.log, Len(ret.log) + 1, Len(ret'.log))
      [] Stepped \/ Reloaded ->
             IF ret'.tick # ret.tick THEN ret'.log ELSE <<>>
      [] OTHER -> <<>>

\* this step handles a Start, Stop or Restart request for job c, or an
\* event that matches start_on or stop_on of its class
Asked(c) ==
    \/ \E i \in DOMAIN NewLog : NewLog[i].op = "call" /\ NewLog[i].job = c
    \/ /\ pc = "foreach" /\ pc' = "handling"
       /\ events[iter].name \in classes[c].start_on \cup classes[c].stop_on

\* C15: the entries of job.blocking are resolved when a job that is not a
\* task enters RUNNING from POST_START; those of a task stay through
\* RUNNING, and a step resolves them only if the job reaches WAITING or
\* fails in it, or if it handles a request or an event for the job, or
\* takes the job back from PRE_STOP to RUNNING
C15_TaskHeldUntilResolved ==
    [][\A c \in DOMAIN jobs :
          /\ (~classes[c].task /\ EntersRunning(c)) =>
                jobs'[c].blocking = <<>>
          /\ (classes[c].task /\ EntersRunning(c)) => StillHeld(c)
          /\ (classes[c].task /\ ~jobs[c].failed
              /\ c \in DOMAIN jobs' /\ jobs'[c].failed) =>
                jobs'[c].blocking = <<>>
          /\ (classes[c].task /\ ~EndsOrFails(c) /\ ~Asked(c)
              /\ ~(jobs[c].state = "JOB_PRE_STOP"
                   /\ jobs'[c].state = "JOB_RUNNING")) =>
                StillHeld(c)]_vars

\* a task is RUNNING and the event that started it still waits for it
C15_Witness ==
    /\ Stepped
    /\ "a" \in DOMAIN jobs
    /\ classes["a"].task
    /\ jobs["a"].state = "JOB_RUNNING"
    /\ jobs["a"].pid["PROCESS_MAIN"] > 0
    /\ Len(events) = 1
    /\ jobs["a"].blocking = <<blocked_new_event(1)>>
    /\ events[1].blockers = 1

\* the replies to EmitEvent callers among the log entries of this step
EmitReplies ==
    SelectSeq(NewLog, LAMBDA entry : /\ entry.op = "reply"
                                     /\ entry.type = "BLOCKED_EMIT_METHOD")

\* the callers that wait for the event at place e
Waiting(e) ==
    {i \in DOMAIN events[e].blocking :
        events[e].blocking[i].type = "BLOCKED_EMIT_METHOD"}

Callers(blocking) ==
    SelectSeq(blocking, LAMBDA blocked : blocked.type \in JobMethods)

\* C17: job_finished (job, failed) resolves every entry of job.blocking
\* and leaves the list empty: the blockers of each event drop by one for
\* each EVENT entry of the event, the failed flag of an event with an
\* entry is set when failed is true and no flag that was set is cleared,
\* and each caller among the entries gets one reply, in the order of the
\* list: the reply of its method when failed is false and the JobFailed
\* error when it is true
C17_JobFinishedResolvesAll ==
    Called =>
        /\ ~aborted
        /\ jobs["a"].blocking = <<>>
        /\ Len(events) = Len(ret.events)
        /\ \A e \in Places :
              events[e] =
                  [ret.events[e] EXCEPT
                      !.blockers = @ - RecordsOf(ret.blocking, e),
                      !.failed = @ \/ (ret.failed
                                       /\ RecordsOf(ret.blocking, e) > 0)]
        /\ Len(ret.trace) = Len(Callers(ret.blocking))
        /\ \A i \in DOMAIN ret.trace :
              ret.trace[i] =
                  [op |-> "reply",
                   type |-> Callers(ret.blocking)[i].type,
                   message |-> Callers(ret.blocking)[i].message,
                   error |-> IF ret.failed THEN "JobFailed" ELSE ""]

\* job_finished (job, FALSE) has resolved two records of an event that had
\* failed before and the record of a caller
C17_Witness ==
    /\ Called
    /\ ~ret.failed
    /\ RecordsOf(ret.blocking, 1) = 2
    /\ ret.events[1].failed
    /\ Len(ret.trace) = 1
    /\ events[1].failed /\ events[1].blockers = 0

\* the statuses job_failed is called with: a failure of the spawner, and
\* the exit statuses
FailedStatuses == {-1} \cup ExitStatuses

\* the failure recorded for job c stays as it is over this step
RecordKept(c) ==
    /\ jobs'[c].failed
    /\ jobs'[c].failed_process = jobs[c].failed_process
    /\ jobs'[c].exit_status = jobs[c].exit_status

\* this step takes job c to STARTING, where the record is cleared
RecordCleared(c) ==
    /\ jobs[c].state # "JOB_STARTING"
    /\ jobs'[c].state = "JOB_STARTING"
    /\ ~jobs'[c].failed
    /\ jobs'[c].failed_process = PROCESS_NONE
    /\ jobs'[c].exit_status = 0

\* the places after this step of the events emitted in it: event_finished
\* frees the event at iter
NewPlaces ==
    {e \in 1..Len(events') :
        e > Len(events) - (IF AtFinished THEN 1 ELSE 0)}

\* this step emits the stopped event of job c with the failure recorded
\* before it
StoppedAsRecorded(c) ==
    \E e \in NewPlaces :
        /\ events'[e].name = JOB_STOPPED_EVENT
        /\ events'[e].env = JobEventEnv(c, jobs[c], TRUE)

\* C18: job_failed is idempotent: called for a job that is marked failed,
\* with any process and status, it changes nothing (failed_process and
\* exit_status stay, job.blocking is not resolved, nothing is sent); and
\* the record of a failed job stays as the first call left it until the
\* job enters STARTING, where it is cleared, or until the job is freed in
\* WAITING, its stopped event telling the failure first recorded
C18_JobFailedOnce ==
    [][\A c \in DOMAIN jobs :
          jobs[c].failed =>
              /\ \A process \in ProcessType \cup {PROCESS_NONE},
                    status \in FailedStatuses :
                    job_failed(World, c, process, status) = World
              /\ c \in DOMAIN jobs' => RecordKept(c) \/ RecordCleared(c)
              /\ (c \notin DOMAIN jobs' /\ ~aborted') =>
                    StoppedAsRecorded(c)]_vars

\* a job whose main process has failed to spawn is stopping, a caller
\* waits for it, and the post-stop process that may fail in its turn is
\* yet to run
C18_Witness ==
    \E c \in DOMAIN jobs :
        /\ jobs[c].failed
        /\ jobs[c].failed_process = "PROCESS_MAIN"
        /\ jobs[c].exit_status = -1
        /\ jobs[c].state = "JOB_STOPPING"
        /\ jobs[c].blocking # <<>>
        /\ "PROCESS_POST_STOP" \in classes[c].process

\* the event that follows a failed event: PENDING, with the env and the
\* session of the failed one
FailedEventOf(event) ==
    [name |-> event.name \o <<"failed">>, env |-> event.env,
     session |-> event.session, progress |-> "EVENT_PENDING",
     failed |-> FALSE, blockers |-> 0, blocking |-> <<>>, fd |-> -1]

\* the events emitted in this step whose name ends in /failed
NewFailedPlaces ==
    {e \in NewPlaces : ~NotFailedName(events'[e].name)}

IsStopped(entry, c) ==
    /\ entry.op = "emit"
    /\ entry.name = JOB_STOPPED_EVENT
    /\ entry.env[1] = <<"JOB", c>>

\* the log entry of a reply to a caller that waited for a job
IsJobReply(entry) == entry.op = "reply" /\ entry.type \in JobMethods

\* the log entry of job c leaving the instances of its class
Removed(c) == [op |-> "remove", job |-> c]

\* job c leaves the instances of its class in this step
Leaves(c) == c \in DOMAIN jobs /\ c \notin DOMAIN jobs'

\* C20 as stated: a job that reaches WAITING is removed from the instances
\* of its class before the stopped event is emitted and before the
\* waiters are resolved
C20_RemovedFirst ==
    [][\A c \in DOMAIN classes :
          Leaves(c) =>
              \E j \in DOMAIN NewLog :
                  /\ NewLog[j] = Removed(c)
                  /\ \A i \in DOMAIN NewLog :
                        (IsStopped(NewLog[i], c) \/ IsJobReply(NewLog[i]))
                            => j < i]_vars

\* C20: a job that reaches WAITING is removed from the instances of its
\* class in that same transition: no state holds a job in WAITING, and in
\* the step in which the job leaves, the stopped event is emitted first,
\* then the callers that wait for the job are answered, then the job is
\* removed, with nothing else in between and no answer after it
C20_RemovedAfterStopped ==
    [][\A c \in DOMAIN classes :
          /\ c \in DOMAIN jobs' => jobs'[c].state # "JOB_WAITING"
          /\ Leaves(c) =>
                \E i, j \in DOMAIN NewLog :
                    /\ i < j
                    /\ IsStopped(NewLog[i], c)
                    /\ NewLog[j] = Removed(c)
                    /\ \A k \in DOMAIN NewLog :
                          /\ i < k /\ k < j => IsJobReply(NewLog[k])
                          /\ j < k => ~IsJobReply(NewLog[k])]_vars

\* a job has reached WAITING: its stopped event was emitted, the caller of
\* Stop that waited for it was answered, and then the job was removed
C20_Witness ==
    /\ Stepped
    /\ jobs = <<>>
    /\ \E j \in DOMAIN ret.log :
          /\ j > 2
          /\ ret.log[j] = Removed("a")
          /\ ret.log[j - 1] =
                 [op |-> "reply", type |-> "BLOCKED_INSTANCE_STOP_METHOD",
                  message |-> 1, error |-> ""]
          /\ IsStopped(ret.log[j - 2], "a")

\* job c leaves the instances of its class by entering WAITING: the
\* stopped event is emitted and then the job is removed
LeavesByWaiting(c) ==
    \E i, j \in DOMAIN NewLog :
        /\ i < j
        /\ IsStopped(NewLog[i], c)
        /\ NewLog[j] = Removed(c)

\* C21: a job leaves the instances of its class only by the transition
\* into WAITING, and is then freed: with its class, which is freed, exactly
\* when the class is deleted and job_class_reconsider reports it unused,
\* and on its own otherwise
C21_FreedAtWaiting ==
    [][\A c \in DOMAIN classes :
          /\ Leaves(c) =>
                /\ LeavesByWaiting(c)
                /\ c \notin DOMAIN classes' <=>
                       (classes[c].deleted /\ ret'.unused)
          /\ (c \in DOMAIN jobs /\ c \notin DOMAIN classes') => Leaves(c)]_vars

\* a deleted class has been freed with its last instance, which had
\* reached WAITING
C21_Witness ==
    /\ Reloaded
    /\ classes = <<>>
    /\ ret.unused
    /\ \E j \in DOMAIN ret.log : ret.log[j] = Removed("a")

\* C22: between the handlers (a request, a child exit, each step of
\* event_poll), no job has the goal START in WAITING and none has the goal
\* STOP in RUNNING: job_change_goal moves such a job on at once
C22_RestStatesInduced ==
    ~aborted =>
        \A c \in DOMAIN jobs :
            /\ ~(jobs[c].goal = "JOB_START" /\ jobs[c].state = "JOB_WAITING")
            /\ ~(jobs[c].goal = "JOB_STOP" /\ jobs[c].state = "JOB_RUNNING")

\* a job that was told to stop while RUNNING has been moved on to PRE_STOP,
\* and event_poll is not running
C22_Witness ==
    /\ pc = "main"
    /\ \E c \in DOMAIN jobs :
          /\ jobs[c].goal = "JOB_STOP"
          /\ jobs[c].state = "JOB_PRE_STOP"
          /\ jobs[c].pid["PROCESS_PRE_STOP"] > 0

\* the error a request is refused with in the state, "" when it is accepted
Refused(call) ==
    IF call.session # classes[call.job].session THEN "PermissionDenied"
    ELSE IF call.method = "job_start"
            /\ jobs[call.job].goal = "JOB_START" THEN "AlreadyStarted"
    ELSE IF call.method \in {"job_stop", "job_restart"}
            /\ jobs[call.job].goal = "JOB_STOP" THEN "AlreadyStopped"
    ELSE ""

\* C23: a Start request for a job whose goal is START, a Stop or Restart
\* request for a job whose goal is STOP, and any of them from another
\* session than that of the class, returns the error AlreadyStarted,
\* AlreadyStopped or PermissionDenied and does nothing else: the goal, the
\* state, start_env, stop_env and the blocking list of the job stay, no
\* event is emitted and no caller is answered
C23_RefusedChangesNothing ==
    [][(NewLog # <<>> /\ NewLog[1].op = "call"
        /\ Refused(NewLog[1]) # "") =>
          /\ NewLog = <<NewLog[1],
                        [op |-> "return", error |-> Refused(NewLog[1]),
                         reply |-> FALSE]>>
          /\ \A c \in DOMAIN jobs :
                /\ c \in DOMAIN jobs'
                /\ jobs'[c].goal = jobs[c].goal
                /\ jobs'[c].state = jobs[c].state
                /\ jobs'[c].start_env = jobs[c].start_env
                /\ jobs'[c].stop_env = jobs[c].stop_env
                /\ jobs'[c].blocking = jobs[c].blocking
          /\ events' = events]_vars

\* a Restart request was refused for a job that is stopping and that the
\* caller of Stop waits for
C23_Witness ==
    /\ Stepped
    /\ Len(ret.log) = 2
    /\ ret.log[1].op = "call"
    /\ ret.log[1].method = "job_restart"
    /\ ret.log[2] = [op |-> "return", error |-> "AlreadyStopped",
                     reply |-> FALSE]
    /\ "a" \in DOMAIN jobs
    /\ jobs["a"].state = "JOB_STOPPING"
    /\ jobs["a"].blocking # <<>>

\* the values the environment env gives the variable key
ValuesOf(env, key) == {env[i][2] : i \in {j \in DOMAIN env : env[j][1] = key}}

AtPending ==
    /\ ~aborted
    /\ pc = "foreach"
    /\ iter # NULL
    /\ events[iter].progress = "EVENT_PENDING"

\* C25: events leave PENDING in the order of the queue, in which every
\* new event is the last: the event that event_poll is about to handle
\* has no PENDING event before it, and no PENDING event is followed in the
\* queue by one that has left PENDING, whoever emitted the events
C25_HandledInQueueOrder ==
    /\ AtPending =>
          \A e \in Places : e < iter => events[e].progress # "EVENT_PENDING"
    /\ ~aborted =>
          \A e1, e2 \in Places :
              (e1 < e2 /\ events[e1].progress = "EVENT_PENDING")
                  => events[e2].progress = "EVENT_PENDING"

\* event_poll has handled foo, which started a job; bar, emitted after
\* foo, and the starting event of the job, emitted by the handler, wait
\* behind it in that order
C25_Witness ==
    /\ pc = "handling"
    /\ iter = 1
    /\ Len(events) = 3
    /\ events[1].name = <<"foo">>
    /\ events[1].progress = "EVENT_HANDLING"
    /\ events[2].name = <<"bar">>
    /\ events[2].progress = "EVENT_PENDING"
    /\ events[3].name = JOB_STARTING_EVENT
    /\ events[3].progress = "EVENT_PENDING"

\* C26 as stated: an event emitted from outside is PENDING with a blocker
\* held for the caller, which keeps it from FINISHED until the caller
\* unblocks it
C26_EmitHoldsBlocker ==
    ~aborted =>
        \A e \in Places :
            (events[e].name \in ExtNames
             /\ events[e].progress = "EVENT_PENDING")
                => events[e].blockers > 0

\* C26: an event returned by event_new is PENDING with nothing blocking
\* it, no blocker being held for the caller: a PENDING event has blockers
\* 0, and an event that has been handled and that no job has blocked
\* becomes FINISHED in the same pass of event_poll, with no unblock
C26_EmitHoldsNothing ==
    [][/\ \A e \in DOMAIN events' :
             events'[e].progress = "EVENT_PENDING" =>
                 /\ events'[e].blockers = 0
                 /\ events'[e].blocking \in {<<>>, <<blocked_new_job("a")>>,
                                             <<blocked_new_job("b")>>}
       /\ (~aborted /\ pc = "handling" /\ events[iter].blockers = 0) =>
             /\ pc' = "finished"
             /\ events'[iter].progress = "EVENT_FINISHED"]_vars

\* an event emitted from outside has become FINISHED in the pass that
\* handled it: no job has been started, and nothing has unblocked it
C26_Witness ==
    /\ pc = "finished"
    /\ jobs = <<>>
    /\ events[iter].name = <<"bar">>
    /\ events[iter].progress = "EVENT_FINISHED"
    /\ events[iter].blockers = 0

\* C27: the events list serialised and then deserialised has as many
\* events, in the same order, each with the name, the env, the session and
\* the fd it had
C27_QueueRoundTrip ==
    Called =>
        /\ Len(events) = Len(ret.events)
        /\ \A e \in DOMAIN ret.events :
              /\ events[e].name = ret.events[e].name
              /\ events[e].env = ret.events[e].env
              /\ events[e].session = ret.events[e].session
              /\ events[e].fd = ret.events[e].fd

\* C28: an event serialised and then deserialised has the progress, the
\* failed flag and the blockers it had
C28_ProgressRoundTrip ==
    Called =>
        \A e \in DOMAIN ret.events :
            /\ events[e].progress = ret.events[e].progress
            /\ events[e].failed = ret.events[e].failed
            /\ events[e].blockers = ret.events[e].blockers

\* this step is a re-exec
ReExecStep == NewLog = <<ReExeced>>

\* the Blocked records that reference event e in the state after the step
RecordsAfter(e) ==
    {<<c, i>> \in (DOMAIN jobs') \X (1..MaxEvents + 1) :
        /\ i \in DOMAIN jobs'[c].blocking
        /\ jobs'[c].blocking[i].type = "BLOCKED_EVENT"
        /\ jobs'[c].blocking[i].event = e}

\* the event of every Blocked{JOB} record has the record after the step,
\* and is the blocker of the job
JobRecordsKept ==
    \A e \in DOMAIN events, c \in DOMAIN jobs :
        blocked_new_job(c) \in {events[e].blocking[i] :
                                   i \in DOMAIN events[e].blocking}
        => /\ e \in DOMAIN events'
           /\ blocked_new_job(c) \in {events'[e].blocking[i] :
                                         i \in DOMAIN events'[e].blocking}
           /\ c \in DOMAIN jobs'
           /\ jobs'[c].blocker = e

\* C29: after a re-exec an event that was blocking a job has a Blocked{JOB}
\* record of the restored job in its blocking list, the blocker of that job
\* is the restored event, and the blockers of every restored event are as
\* many as the Blocked records that reference it
C29_BlockingRestored ==
    [][ReExecStep =>
          /\ JobRecordsKept
          /\ \A e \in DOMAIN events' :
                events'[e].blockers = Cardinality(RecordsAfter(e))]_vars

\* the goal, the state, the pid table and the failure fields of a job
Kept30(job) ==
    <<job.goal, job.state, job.pid, job.failed, job.failed_process,
      job.exit_status>>

\* this step handles the exit of the main process of the RUNNING job c
MainExits(c) ==
    /\ c \in DOMAIN jobs
    /\ jobs[c].state = "JOB_RUNNING"
    /\ NewLog # <<>>
    /\ \E status \in ExitStatuses :
          NewLog[1] = Exited(c, "PROCESS_MAIN", status)

ReadFails == AtBoot /\ ret'.log # <<>> /\ ret'.log[1] = ReadFailed

\* the new process has no jobs and no events
NothingRestored == jobs' = <<>> /\ events' = <<>>

\* C31 as stated: when the state cannot be read, the error is logged and
\* the program goes on without state and without aborting
C31_NeverAborts ==
    [][ReadFails => NothingRestored /\ ~aborted']_vars

\* C31: when the state cannot be read, the error is logged and the program
\* re-executes itself with one --state-fd option less, or asserts if that
\* execv fails; a process re-executed without a state fd enters its main
\* loop with no jobs and no events, the startup event not being emitted
C31_StatelessAfterFailedRead ==
    [][/\ ReadFails =>
             /\ NothingRestored
             /\ ~ret'.pipe.written
             /\ HasOption(ret'.args, "--restart")
             /\ Len(ret'.args) = Len(ret.args) - 2
             /\ Cardinality(StateFdPlaces(ret'.args))
                    = Cardinality(StateFdPlaces(ret.args)) - 1
             /\ IF aborted' THEN ret'.log = <<ReadFailed, BothFailed>>
                ELSE ret'.log = <<ReadFailed>> /\ pc' = "boot"
       /\ AtBoot /\ HasOption(ret.args, "--restart")
                 /\ ~HasOption(ret.args, "--state-fd") =>
             /\ NothingRestored
             /\ ~aborted'
             /\ pc' = "main"
             /\ ret'.log = <<Stateless>>]_vars

\* the state could not be read and the program has re-executed itself
\* without a state fd
C31_Witness ==
    /\ AtBoot
    /\ ret.log = <<ReadFailed>>
    /\ ret.args = <<"init", "--restart">>
    /\ jobs = <<>>
    /\ events = <<>>

\* C40: when the state cannot be read, the command line of the re-exec
\* that follows holds no --state-fd option and holds --restart, whatever
\* number of re-execs there were before
C40_FallbackWithoutStateFd ==
    [][ReadFails =>
          /\ ~HasOption(ret'.args, "--state-fd")
          /\ HasOption(ret'.args, "--restart")]_vars

\* C32: the job that job_new has made is an instance of its class, with
\* goal STOP, state WAITING, every pid 0, no blocker, nothing blocked and
\* no failure
C32_NewJob ==
    Called =>
        /\ ret.class \in DOMAIN jobs
        /\ jobs[ret.class].goal = "JOB_STOP"
        /\ jobs[ret.class].state = "JOB_WAITING"
        /\ \A process \in ProcessType : jobs[ret.class].pid[process] = 0
        /\ jobs[ret.class].blocker = NULL
        /\ jobs[ret.class].blocking = <<>>
        /\ ~jobs[ret.class].failed

\* job_new has made the instance of class b while events are queued
C32_Witness ==
    /\ Called
    /\ ret.class = "b"
    /\ DOMAIN jobs = {"b"}
    /\ events # <<>>

\* this step handles a Restart request for the job of class c, which is
\* RUNNING with goal START
RestartsRunning(c) ==
    /\ c \in DOMAIN jobs
    /\ jobs[c].state = "JOB_RUNNING"
    /\ jobs[c].goal = "JOB_START"
    /\ NewLog # <<>>
    /\ NewLog[1].op = "call"
    /\ NewLog[1].method = "job_restart"
    /\ NewLog[1].job = c

\* this step answers a caller of Restart
RestartReplies ==
    {i \in DOMAIN NewLog :
        /\ NewLog[i].op = "reply"
        /\ NewLog[i].type = "BLOCKED_INSTANCE_RESTART_METHOD"}

\* the request leaves the job stopping with goal START; from there it
\* goes by STOPPING, KILLED and POST_STOP to STARTING; a caller that waits
\* is answered when the job enters RUNNING again, or when it fails
RestartedByRequest(c) ==
    /\ RestartsRunning(c) =>
          /\ c \in DOMAIN jobs'
          /\ jobs'[c].state \in {"JOB_PRE_STOP", "JOB_STOPPING"}
          /\ jobs'[c].goal = "JOB_START"
          /\ RestartReplies = {}
    /\ /\ c \in DOMAIN jobs /\ c \in DOMAIN jobs'
       /\ jobs[c].goal = "JOB_START" /\ jobs'[c].goal = "JOB_START"
       => /\ jobs'[c].state \in RestartPath(jobs[c].state)
          /\ jobs[c].state = "JOB_PRE_STOP" =>
                jobs'[c].state \in {"JOB_PRE_STOP", "JOB_STOPPING"}
    /\ \A i \in RestartReplies :
          \/ NewLog[i].error = "JobFailed"
          \/ /\ c \in DOMAIN jobs /\ c \in DOMAIN jobs'
             /\ jobs[c].state # "JOB_RUNNING"
             /\ jobs'[c].state = "JOB_RUNNING"
             /\ jobs'[c].goal = "JOB_START"

\* C33: a Restart request for a job that is RUNNING with goal START stops
\* the job and starts it again: the job goes by STOPPING, KILLED, POST_STOP
\* and STARTING before it is RUNNING again, with goal START, and a caller
\* that waits is answered only once the job has started again or failed
C33_RestartedByRequest ==
    [][\A c \in DOMAIN classes : RestartedByRequest(c)]_vars

\* the job of class c waits for the event it has emitted and is blocked by
AwaitsEvent(c) ==
    /\ jobs[c].blocker \in DOMAIN events
    /\ blocked_new_job(c) \in
           {events[jobs[c].blocker].blocking[i] :
               i \in DOMAIN events[jobs[c].blocker].blocking}

\* C34: when job_change_goal returns the job is still an instance of its
\* class, with the goal given, and either in the state it was in or
\* waiting in STARTING or STOPPING for its event or in PRE_STOP for its
\* pre-stop process; it is in WAITING only if it was there before
C34_GoalChangeKeepsJob ==
    Called =>
        /\ ~aborted
        /\ "a" \in DOMAIN jobs
        /\ jobs["a"].goal = ret.goal
        /\ \/ jobs["a"].state = ret.job.state
           \/ /\ jobs["a"].state \in {"JOB_STARTING", "JOB_STOPPING"}
              /\ AwaitsEvent("a")
           \/ /\ jobs["a"].state = "JOB_PRE_STOP"
              /\ jobs["a"].pid["PROCESS_PRE_STOP"] > 0
        /\ jobs["a"].state = "JOB_WAITING" =>
              ret.job.state = "JOB_WAITING"

\* a RUNNING job whose pre-stop process could not be spawned waits in
\* STOPPING after the goal change
C34_Witness ==
    /\ Called
    /\ ret.job.state = "JOB_RUNNING"
    /\ ret.goal = "JOB_STOP"
    /\ "PROCESS_PRE_STOP" \in classes["a"].process
    /\ ret.job.pid["PROCESS_MAIN"] > 0
    /\ jobs["a"].state = "JOB_STOPPING"
    /\ jobs["a"].pid["PROCESS_PRE_STOP"] = 0
    /\ AwaitsEvent("a")

\* the goal RESPAWN in one of the two states in which a job may have it
RespawnDue ==
    ret.goal = "JOB_RESPAWN" /\ ret.state \in {"JOB_POST_START", "JOB_PRE_STOP"}

\* C35: with the goal RESPAWN in POST_START or PRE_STOP job_next_state
\* sets the goal to START and returns STOPPING, from where the states
\* returned under the goal START are KILLED, POST_STOP and STARTING; in
\* every other case it leaves the goal and every other field of the job
\* as they were
C35_RespawnFlipsGoal ==
    Called =>
        /\ IF RespawnDue
           THEN /\ ret.next = "JOB_STOPPING"
                /\ jobs["a"] = [ret.job EXCEPT !.goal = "JOB_START"]
           ELSE jobs["a"] = ret.job
        /\ ret.goal = "JOB_START" =>
              /\ ret.state = "JOB_STOPPING" => ret.next = "JOB_KILLED"
              /\ ret.state = "JOB_KILLED" => ret.next = "JOB_POST_STOP"
              /\ ret.state = "JOB_POST_STOP" => ret.next = "JOB_STARTING"

\* the RESPAWN goal of a job in PRE_STOP has become START, on the way to
\* STOPPING, its main process gone
C35_Witness ==
    /\ Called
    /\ ret.state = "JOB_PRE_STOP"
    /\ ret.goal = "JOB_RESPAWN"
    /\ ret.next = "JOB_STOPPING"
    /\ ret.job.pid["PROCESS_MAIN"] = 0
    /\ jobs["a"].goal = "JOB_START"
    /\ jobs["a"].state = "JOB_PRE_STOP"


\* this step handles a Start, Stop or Restart request for job c that is
\* accepted
AcceptedCall(c) ==
    /\ NewLog # <<>>
    /\ NewLog[1].op = "call"
    /\ NewLog[1].job = c
    /\ Refused(NewLog[1]) = ""

\* this step handles an event that changes the goal of job c: it matches
\* stop_on while the goal is not STOP, or start_on while it is not START
AcceptedEvent(c) ==
    /\ pc = "foreach" /\ pc' = "handling"
    /\ \/ events[iter].name \in classes[c].stop_on
          /\ jobs[c].goal # "JOB_STOP"
       \/ events[iter].name \in classes[c].start_on
          /\ jobs[c].goal # "JOB_START"

\* the Blocked type of the caller of a method
MethodType(method) ==
    CASE method = "job_start" -> "BLOCKED_INSTANCE_START_METHOD"
      [] method = "job_stop" -> "BLOCKED_INSTANCE_STOP_METHOD"
      [] method = "job_restart" -> "BLOCKED_INSTANCE_RESTART_METHOD"

\* the Blocked records the command of this step attaches to job c
AttachedBy(c) ==
    IF AcceptedCall(c)
    THEN IF NewLog[1].wait
         THEN {blocked_new_message(MethodType(NewLog[1].method), 1)}
         ELSE {}
    ELSE {blocked_new_event(iter)}

\* the replies of this step
Replies == SelectSeq(NewLog, LAMBDA entry : entry.op = "reply")

\* the reply that tells the caller of a Blocked record that the job did
\* not fail
Success(blocked) ==
    [op |-> "reply", type |-> blocked.type, message |-> blocked.message,
     error |-> ""]

\* the list s with f applied to each entry
RECURSIVE Each(_, _)
Each(f(_), s) == IF s = <<>> THEN <<>> ELSE <<f(Head(s))>> \o Each(f, Tail(s))

\* the entries job c has in its blocking list when the step begins are
\* resolved by it as not failed: the callers are the first to be answered,
\* each with the reply of its method, and the events lose the blockers of
\* their records and keep their failed flag; the list of the job holds
\* after the step no record but those of the command
ResolvedFirst(c) ==
    /\ ~aborted'
    /\ Prefix(Each(Success, Callers(jobs[c].blocking)), Replies)
    /\ c \in DOMAIN jobs' =>
          \A i \in DOMAIN jobs'[c].blocking :
             jobs'[c].blocking[i] \in AttachedBy(c)
    /\ \A e \in Places :
          RecordsOf(jobs[c].blocking, e) > 0 =>
             /\ events'[e].failed = events[e].failed
             /\ events'[e].blockers = 0

\* C36: a goal-changing command that is accepted (a Start, Stop or
\* Restart request, or an event that matches start_on or stop_on while the
\* goal differs) first resolves the entries the job has in its blocking
\* list as not failed, and the list holds afterwards only the records the
\* command attached
C36_CommandResolvesWaiters ==
    [][\A c \in DOMAIN jobs :
          (AcceptedCall(c) \/ AcceptedEvent(c)) => ResolvedFirst(c)]_vars

\* a Stop request whose caller waits was accepted for a job that the
\* caller of Start waited for: the caller of Start has its reply and the
\* record of the caller of Stop is alone in the list
C36_Witness ==
    /\ Stepped
    /\ Len(ret.log) >= 2
    /\ ret.log[1].op = "call"
    /\ ret.log[1].method = "job_stop"
    /\ ret.log[2] = [op |-> "reply", type |-> "BLOCKED_INSTANCE_START_METHOD",
                     message |-> 1, error |-> ""]
    /\ "a" \in DOMAIN jobs
    /\ jobs["a"].blocking =
          <<blocked_new_message("BLOCKED_INSTANCE_STOP_METHOD", 1)>>

\* an event that stops the job was handled while the event that started it
\* waited for it: the first event waits no more and has not failed, the
\* second has the only record of the list
C36_WitnessEvent ==
    /\ Stepped
    /\ pc = "handling"
    /\ Len(events) = 2
    /\ iter = 2
    /\ events[1].blockers = 0
    /\ ~events[1].failed
    /\ events[1].progress = "EVENT_HANDLING"
    /\ "a" \in DOMAIN jobs
    /\ jobs["a"].goal = "JOB_STOP"
    /\ jobs["a"].blocking = <<blocked_new_event(2)>>


\* the spawn of a process of job c fails during this step
SpawnFailed(c, process) ==
    \E i \in DOMAIN NewLog :
       NewLog[i] = [op |-> "spawn_failed", job |-> c, process |-> process]

\* the processes whose spawn failure job_change_state takes for a failure
\* of the job
FatalSpawns == {"PROCESS_PRE_START", "PROCESS_MAIN", "PROCESS_POST_STOP"}

\* the environment of the stopped event of a job that failed to spawn a
\* process
SpawnFailedEnv(c, process) ==
    <<<<"JOB", c>>, <<"INSTANCE", "">>, <<"RESULT", "failed">>,
      <<"PROCESS", process_name(process)>>>>

\* the stopped event of job c is emitted during this step with this
\* environment
Stopped(c, env) ==
    /\ c \notin DOMAIN jobs'
    /\ \E i \in DOMAIN NewLog : NewLog[i] = Emitted(JOB_STOPPED_EVENT, env)
    /\ \A i \in DOMAIN NewLog :
          (NewLog[i].op = "emit" /\ NewLog[i].name = JOB_STOPPED_EVENT) =>
             NewLog[i].env = env

\* the failure to spawn the process is the failure recorded for the job,
\* which is to stop
FailedToSpawn(job, process) ==
    /\ job.failed
    /\ job.failed_process = process
    /\ job.exit_status = -1
    /\ job.goal = "JOB_STOP"

C37_Witness ==
    /\ Stepped
    /\ "a" \notin DOMAIN jobs
    /\ \E i \in DOMAIN ret.log :
          ret.log[i] = Emitted(JOB_STOPPED_EVENT,
                               SpawnFailedEnv("a", "PROCESS_PRE_START"))

C37_WitnessPostStart ==
    /\ Stepped
    /\ "a" \in DOMAIN jobs
    /\ jobs["a"].state = "JOB_RUNNING"
    /\ \E i \in DOMAIN ret.log :
          ret.log[i] = [op |-> "spawn_failed", job |-> "a",
                        process |-> "PROCESS_POST_START"]


\* the goals with which a job is found in each state between two handlers:
\* the goal START with which RUNNING is entered is changed only by a
\* handler that takes the job on, no job is left in WAITING, and the goal
\* RESPAWN is kept only while a post-start or pre-stop process runs
GoalOfState(job) ==
    /\ job.state = "JOB_RUNNING" => job.goal = "JOB_START"
    /\ job.state # "JOB_WAITING"
    /\ job.goal = "JOB_RESPAWN" =>
          \/ job.state = "JOB_POST_START" /\ job.pid["PROCESS_POST_START"] > 0
          \/ job.state = "JOB_PRE_STOP" /\ job.pid["PROCESS_PRE_STOP"] > 0

\* a job waits for an event only in the states that emit one for it
BlockerOfState(job) ==
    job.blocker # NULL => job.state \in {"JOB_STARTING", "JOB_STOPPING"}

\* this step takes job c out of its state, or frees it
LeavesState(c) == c \notin DOMAIN jobs' \/ jobs'[c].state # jobs[c].state

\* this step is the event_finished of the event job c waits for
BlockerFinished(c) ==
    /\ iter = jobs[c].blocker
    /\ \/ pc = "finished"
       \/ pc = "foreach" /\ events[iter].progress = "EVENT_FINISHED"
    /\ poll_again'

\* C38: under every interleaving of events, requests, spawn results and
\* child exits no assertion of job_change_state or job_next_state fails
\* (the program does not abort): the goal of a job is one with which its
\* state may be entered or left, and the state of a job that waits for an
\* event is changed by no handler but the event_finished of that event,
\* which clears job.blocker first
C38_NoAssertionFails ==
    /\ [](~aborted
          /\ \A c \in DOMAIN jobs :
                GoalOfState(jobs[c]) /\ BlockerOfState(jobs[c]))
    /\ [][\A c \in DOMAIN jobs :
             (jobs[c].blocker # NULL /\ LeavesState(c)) =>
                BlockerFinished(c)]_vars

\* a respawning job whose main process has died waits in PRE_STOP for its
\* pre-stop process, with the goal RESPAWN
C38_Witness ==
    /\ ~aborted
    /\ "a" \in DOMAIN jobs
    /\ jobs["a"].goal = "JOB_RESPAWN"
    /\ jobs["a"].state = "JOB_PRE_STOP"
    /\ jobs["a"].pid["PROCESS_MAIN"] = 0
    /\ jobs["a"].pid["PROCESS_PRE_STOP"] > 0


\* the lifecycle events
JobEvents ==
    {JOB_STARTING_EVENT, JOB_STARTED_EVENT, JOB_STOPPING_EVENT,
     JOB_STOPPED_EVENT}

\* the names of the lifecycle events this step emits for the instance of
\* class c, in their order
Lifecycle(c) ==
    Each(LAMBDA entry : entry.name,
         SelectSeq(NewLog, LAMBDA entry : /\ entry.op = "emit"
                                          /\ entry.name \in JobEvents
                                          /\ entry.env[1] = <<"JOB", c>>))

\* the lifecycle event an instance in this state emitted last: <<>> where
\* the class has no instance
LastEmitted(js, c) ==
    IF c \notin DOMAIN js THEN <<>>
    ELSE CASE js[c].state \in {"JOB_STARTING", "JOB_PRE_START", "JOB_SPAWNED",
                               "JOB_POST_START"} -> JOB_STARTING_EVENT
           [] js[c].state \in {"JOB_RUNNING", "JOB_PRE_STOP"} ->
                  JOB_STARTED_EVENT
           [] js[c].state \in {"JOB_STOPPING", "JOB_KILLED",
                               "JOB_POST_STOP"} -> JOB_STOPPING_EVENT
           [] OTHER -> <<"none">>

\* the lifecycle events that may follow one another: started follows the
\* starting of its start cycle, stopped the stopping of the instance, and
\* nothing but the starting of a new instance follows stopped
Follows(first, second) ==
    CASE first = <<>> -> second = JOB_STARTING_EVENT
      [] first = JOB_STARTING_EVENT ->
             second \in {JOB_STARTED_EVENT, JOB_STOPPING_EVENT}
      [] first = JOB_STARTED_EVENT -> second = JOB_STOPPING_EVENT
      [] first = JOB_STOPPING_EVENT ->
             second \in {JOB_STOPPED_EVENT, JOB_STARTING_EVENT}
      [] first = JOB_STOPPED_EVENT -> second = JOB_STARTING_EVENT
      [] OTHER -> FALSE

\* the events of the list follow one another
InOrder(s) == \A i \in 1..(Len(s) - 1) : Follows(s[i], s[i + 1])

\* the list ends where the instance is after the step: with stopped, or
\* with nothing, when there is no instance, and else with the event that
\* the state of the instance tells
EndsAt(s, c) ==
    IF c \in DOMAIN jobs'
    THEN s[Len(s)] = LastEmitted(jobs', c)
    ELSE s[Len(s)] \in {<<>>, JOB_STOPPED_EVENT}

\* C39: the lifecycle events of an instance are emitted in order: a
\* started event follows the starting event of its start cycle, a stopped
\* event the stopping event of the instance, and stopped is the last
\* event of the instance, which is freed with it; the state of the
\* instance tells the event emitted last
C39_LifecycleOrder ==
    [][\A c \in DOMAIN classes :
          /\ InOrder(<<LastEmitted(jobs, c)>> \o Lifecycle(c))
          /\ EndsAt(<<LastEmitted(jobs, c)>> \o Lifecycle(c), c)]_vars

\* the handler that ends an instance that did not fail has emitted its
\* stopped event and no lifecycle event after it
C39_Witness ==
    /\ Stepped
    /\ "a" \notin DOMAIN jobs
    /\ \E i \in DOMAIN ret.log :
          /\ ret.log[i] =
                Emitted(JOB_STOPPED_EVENT,
                        <<<<"JOB", "a">>, <<"INSTANCE", "">>,
                          <<"RESULT", "ok">>>>)
          /\ \A j \in (i + 1)..Len(ret.log) :
                ret.log[j].op = "emit" => ret.log[j].name \notin JobEvents
====
